---- MODULE Spec2Model ----
(***************************************************************************)
(* A model of the TraceKit snapshot client (src/tracekit/client.go): the   *)
(* breakpoint Registry (breakpointsCache), the Poller, the auto-register   *)
(* dedup cache, the capture Facade and the background tasks it starts.     *)
(*                                                                         *)
(* Goroutines are processes with a program counter.  The RWMutex c.mu is   *)
(* explicit state, so atomicity comes from the lock and not from the       *)
(* grain of the actions.  CheckAndCapture reads c.breakpointsCache with no *)
(* lock held (client.go:187): that read races with the store of            *)
(* client.go:176 and is modelled by RacyGet as a choice over what the      *)
(* read can observe.  lastFetch (client.go:150) is written and never read; *)
(* it is left out.                                                         *)
(***************************************************************************)
EXTENDS Integers, Sequences, FiniteSets, TLC

\* ---------------------------------------------------------------- bounds
\* Facade invocations made in one behaviour.
MaxCalls == 2
\* GET requests to the active-breakpoints endpoint made in one behaviour.
MaxFetches == 2
\* The clock runs from 0 to MaxTime.
MaxTime == 1
\* The seconds the SDK is watched for after NewSDK.
MaxElapsed == 60
\* Calls of the metrics registry's lookups in one behaviour.
MaxLookups == 3
\* Data points given to the metrics buffer in one behaviour.
MaxPoints == 4
\* The size at which an add starts a flush (maxSize, scaled down).
MaxSize == 2

\* ------------------------------------------------------------- constants
None == "none"
\* A nil *time.Time (ExpireAt omitted in the response).
NilTime == -1
StatusOK == 200
StatusCreated == 201
\* 0 stands for a transport error (no response); 500 for any other status.
TransportError == 0
StatusServerError == 500
HttpOutcomes == {TransportError, StatusOK, StatusCreated, StatusServerError}

\* The goroutines of the host program that call the Facade.
Threads == {"c1", "c2"}
\* Background tasks are numbered in the order they are started; 0 is the Poller.
MaxTasks == 2 * MaxCalls
FetcherIds == 0..MaxTasks

\* ------------------------------------------------------ call sites, keys
\* What runtime.Caller / runtime.FuncForPC give for a call site.  A function
\* name is kept as its dot-separated parts.  Site1 and Site2 are two lines
\* of the same function.
Site1 == [file |-> "a.go", line |-> 1, func |-> <<"main", "f">>]
Site2 == [file |-> "a.go", line |-> 2, func |-> <<"main", "f">>]
Sites == {Site1, Site2}
\* Labels a caller passes; "" asks for the auto-generated label.
Labels == {"", "L"}
\* (file, line) pairs given to CheckAndCapture; a.go:3 never has a breakpoint.
Locations == {<<"a.go", 1>>, <<"a.go", 2>>, <<"a.go", 3>>}

RECURSIVE JoinDots(_)
JoinDots(parts) ==
    IF Len(parts) = 0 THEN ""
    ELSE IF Len(parts) = 1 THEN parts[1]
    ELSE parts[1] \o "." \o JoinDots(Tail(parts))

\* fmt.Sprintf("%s:%d", filePath, lineNumber)
LineKey(file, line) == file \o ":" \o ToString(line)

\* fmt.Sprintf("%s:%s", funcName, label)
LabelKey(funcName, label) == funcName \o ":" \o label

\* parts := strings.Split(funcName, "."); label = parts[len(parts)-1]
AutoLabel(funcParts, label) ==
    IF label = "" THEN funcParts[Len(funcParts)] ELSE label

\* The key an unlabelled call site would have were the dedup cache keyed by
\* location.
RegKeyByLocation(file, line, funcName, label) == LineKey(file, line)

\* regKey := fmt.Sprintf("%s:%s", funcName, label)
RegKey(file, line, funcName, label) == LabelKey(funcName, label)

\* ------------------------------------------------------ BreakpointConfig
Cfg(id, site, label, max, cnt, exp, en) ==
    [ID |-> id, FilePath |-> site.file, FunctionName |-> JoinDots(site.func),
     Label |-> label, LineNumber |-> site.line, MaxCaptures |-> max,
     CaptureCount |-> cnt, ExpireAt |-> exp, Enabled |-> en]

\* The breakpoints the backend may list.
BpActive     == Cfg("b1", Site1, "f", 0, 0, NilTime, TRUE)
BpDisabled   == Cfg("b2", Site1, "",  0, 0, NilTime, FALSE)
BpExhausted  == Cfg("b3", Site2, "L", 1, 1, NilTime, TRUE)
BpUnderLimit == Cfg("b3", Site2, "L", 1, 0, NilTime, TRUE)
BpExpiring   == Cfg("b4", Site2, "",  0, 0, 0, TRUE)
BpExpiringOff == Cfg("b5", Site1, "f", 0, 0, 0, FALSE)
BpLineOnly   == Cfg("b6", Site1, "",  0, 0, NilTime, TRUE)
BpLabelExpiring == Cfg("b7", Site1, "f", 0, 0, 0, TRUE)

\* The bodies {"breakpoints": [...]} a 200 response may carry.
Responses ==
    { <<>>, <<BpActive>>, <<BpDisabled>>, <<BpExhausted>>, <<BpUnderLimit>>,
      <<BpExpiringOff>>, <<BpExhausted, BpExpiring>> }

\* --------------------------------------------------------------- state
VARIABLES
    breakpointsCache,   \* c.breakpointsCache: key -> config
    registrationCache,  \* c.registrationCache: the keys marked true
    mu,                 \* c.mu: [w: the holder of the write lock, r: the read-lock holders]
    stopChan,           \* "open" or "closed"
    ppc,                \* the Poller goroutine's position
    fetch,              \* per fetcher: the position in fetchActiveBreakpoints
    tasks,              \* the goroutines started by `go`, in start order
    pc,                 \* per caller: the position in the Facade
    call,               \* per caller: file, line, funcName, label of the invocation
    now,                \* time.Now()
    ncalls,             \* Facade invocations so far
    gets,               \* GET requests so far
    panicked,           \* the process died of a panic
    sdk,                \* what NewSDK built from its Config, and its Poller's ticker
    gin,                \* per caller: the request that GinMiddleware handles
    registry,           \* the metricsRegistry and the goroutines inside its lookups
    buffer              \* the metricsBuffer, its flush goroutines and its exporter

\* The SnapshotClient, and the rest of the SDK around it.
clientVars == <<breakpointsCache, registrationCache, mu, stopChan, ppc, fetch, tasks,
                pc, call, now, ncalls, gets, panicked>>
sdkVars == <<sdk, gin, registry, buffer>>

vars == <<breakpointsCache, registrationCache, mu, stopChan, ppc, fetch, tasks,
          pc, call, now, ncalls, gets, panicked, sdk, gin, registry, buffer>>

\* make(map[string]*BreakpointConfig)
EmptyMap == <<>>

\* An insertion that leaves a key that is already present as it is.
MapPutIfAbsent(m, k, v) == [x \in DOMAIN m \cup {k} |-> IF x \in DOMAIN m THEN m[x] ELSE v]

\* m[k] = v
MapPut(m, k, v) == [x \in DOMAIN m \cup {k} |-> IF x = k THEN v ELSE m[x]]

\* The (bp, exists) pair of a map read.  bp is a sequence of at most one config;
\* exists with an empty bp is a nil pointer.
NotFound == [exists |-> FALSE, bp |-> <<>>]
Found(c) == [exists |-> TRUE, bp |-> <<c>>]
NilFound == [exists |-> TRUE, bp |-> <<>>]

\* A lookup that takes the first entry of the map whatever the key is.
MapGetAnyKey(m, k) ==
    IF DOMAIN m = {} THEN NotFound ELSE Found(m[CHOOSE x \in DOMAIN m : TRUE])

\* bp, exists := m[k]
MapGet(m, k) == IF k \in DOMAIN m THEN Found(m[k]) ELSE NotFound

\* arg is the label argument, label the label after the default is applied.
NoCall == [file |-> "", line |-> 0, func |-> "", arg |-> "", label |-> ""]

\* A fetcher outside fetchActiveBreakpoints.  resp is the decoded body, old the
\* map that c.breakpointsCache held when the fetcher stored its own.
IdleFetch == [st |-> "idle", resp |-> <<>>, old |-> EmptyMap]

\* No SDK yet: NewSDK has not been called.
NoSDK ==
    [built |-> FALSE, Endpoint |-> "", UseSSL |-> FALSE, CodeMonitoringPollInterval |-> 0,
     tracesEndpoint |-> "", metricsEndpoint |-> "", snapshotEndpoint |-> "",
     polling |-> FALSE, elapsed |-> 0, polls |-> <<>>]

\* A caller outside any request: no gin.Context, and context.Background()
\* as its context.  Keys is the store of the gin.Context, requestCtx the
\* values of c.Request.Context(); a key is a Go interface value, a type with
\* a name.
NoRequest == [handling |-> FALSE, Keys |-> EmptyMap, requestCtx |-> EmptyMap]

\* newMetricsRegistry: the three maps are empty.  inLookup is, per goroutine,
\* the lookup it is in; made counts the instances created, returned records
\* what each finished lookup gave back, lookups counts the calls.
MetricKinds == {"counter", "gauge", "histogram"}
NoLookup == [st |-> "idle", kind |-> "", name |-> "", tags |-> EmptyMap, key |-> ""]
NewRegistry ==
    [metrics |-> [kind \in MetricKinds |-> EmptyMap],
     inLookup |-> [t \in Threads |-> NoLookup],
     made |-> 0, returned |-> {}, lookups |-> 0]

\* newMetricsBuffer and start: no data, the stop channel open, the flushLoop
\* goroutine at its select.  A data point is the number of its add; flushes
\* are the goroutines started by add, exported the batches handed to the
\* exporter, in order.
NoFlush == [st |-> "wait", dataPoints |-> <<>>, final |-> FALSE]
NewBuffer ==
    [data |-> <<>>, stop |-> "open", loop |-> NoFlush, flushes |-> <<>>,
     exported |-> <<>>, added |-> 0, panicked |-> FALSE]

Init ==
    /\ breakpointsCache = EmptyMap
    /\ registrationCache = {}
    /\ mu = [w |-> None, r |-> {}]
    /\ stopChan = "open"
    /\ ppc = "new"
    /\ fetch = [f \in FetcherIds |-> IdleFetch]
    /\ tasks = <<>>
    /\ pc = [t \in Threads |-> "idle"]
    /\ call = [t \in Threads |-> NoCall]
    /\ now = 0
    /\ ncalls = 0
    /\ gets = 0
    /\ panicked = FALSE
    /\ sdk = NoSDK
    /\ gin = [t \in Threads |-> NoRequest]
    /\ registry = NewRegistry
    /\ buffer = NewBuffer

\* ------------------------------------------------------------ the gates
\* The expiry test with Before in the place of After.
ExpiredBefore(c, t) == c.ExpireAt # NilTime /\ t < c.ExpireAt

\* bp.ExpireAt != nil && time.Now().After(*bp.ExpireAt)
Expired(c, t) == c.ExpireAt # NilTime /\ t > c.ExpireAt

\* The count test with > in the place of >=.
MaxReachedStrict(c) == c.MaxCaptures > 0 /\ c.CaptureCount > c.MaxCaptures

\* bp.MaxCaptures > 0 && bp.CaptureCount >= bp.MaxCaptures
MaxReached(c) == c.MaxCaptures > 0 /\ c.CaptureCount >= c.MaxCaptures

\* ------------------------------------------------------------- the lock
\* A Lock that excludes nobody.
LockNeverWaits == TRUE

\* c.mu.Lock() can return: no writer and no reader holds the lock.
LockFree == mu.w = None /\ mu.r = {}

\* c.mu.RLock() can return: no writer holds the lock.
RLockFree == mu.w = None

\* ------------------------------------------------- updateBreakpointCache
\* The loop over breakpoints[i:], inserting into m: the label key when Label
\* and FunctionName are both non-empty, then the line key.
RECURSIVE InsertAll(_, _, _)
InsertAll(breakpoints, i, m) ==
    IF i > Len(breakpoints) THEN m
    ELSE LET b == breakpoints[i]
             m1 == IF b.Label # "" /\ b.FunctionName # ""
                   THEN MapPut(m, LabelKey(b.FunctionName, b.Label), b)
                   ELSE m
             m2 == MapPut(m1, LineKey(b.FilePath, b.LineNumber), b)
         IN InsertAll(breakpoints, i + 1, m2)

\* The entries of the response inserted into the map already in place.
NewCacheMerged(old, breakpoints) == InsertAll(breakpoints, 1, old)

\* The map stored into c.breakpointsCache: built from a fresh empty map.
NewCache(old, breakpoints) == InsertAll(breakpoints, 1, EmptyMap)

\* ------------------------------------------------------- the racing read
\* A writer has stored the new map (client.go:176) and has not yet released
\* the lock (the deferred Unlock of client.go:158).
StoreInProgress == \E f \in FetcherIds : fetch[f].st = "swapped"

\* What `bp, exists := c.breakpointsCache[key]` of CheckAndCapture can
\* observe.  The read is ordered with no store: while a store is in progress
\* the reader can see the new map before the entries written into it (not
\* found), or a key before the pointer stored beside it (a nil bp).
RacyGet(key) ==
    LET r == MapGet(breakpointsCache, key)
    IN IF StoreInProgress /\ r.exists THEN {r, NotFound, NilFound} ELSE {r}

\* ------------------------------------------------------ background tasks
NoSnapshot == [BreakpointID |-> "", FilePath |-> "", LineNumber |-> 0]
NoReg == [file |-> "", line |-> 0, func |-> "", label |-> "", key |-> ""]

\* Snapshot{BreakpointID: bp.ID, FilePath: file, LineNumber: line, ...}
Snapshot(c, file, line) ==
    [BreakpointID |-> c.ID, FilePath |-> file, LineNumber |-> line]

\* go c.captureSnapshot(snapshot)
CaptureTask(s) ==
    [kind |-> "capture", st |-> "start", snapshot |-> s, reg |-> NoReg]

\* go func() { ... } of autoRegisterBreakpoint, up to http.DefaultClient.Do(req):
\* the POST is on the wire.
RegisterTask(cl, key) ==
    [kind |-> "register", st |-> "posting", snapshot |-> NoSnapshot,
     reg |-> [file |-> cl.file, line |-> cl.line, func |-> cl.func,
              label |-> cl.label, key |-> key]]

\* A capture task that has returned: its snapshot is discarded.
DoneCapture == [kind |-> "capture", st |-> "done", snapshot |-> NoSnapshot, reg |-> NoReg]

TaskIds == 1..Len(tasks)
IsRegister(i) == tasks[i].kind = "register"
IsCapture(i) == tasks[i].kind = "capture"

\* A panic ends the process: ~panicked is the first conjunct of every action.

\* ----------------------------------------------------- CheckAndCapture
\* The gates of CheckAndCapture on the config found: expiry and capture count.
PassesGates(c, t) == ~Expired(c, t) /\ ~MaxReached(c)

\* The whole handler, on any goroutine of the host: it takes no lock and ends
\* before any task it started runs.
CheckAndCapture(file, line) ==
    /\ ~panicked
    /\ ncalls < MaxCalls
    /\ ncalls' = ncalls + 1
    /\ \E r \in RacyGet(LineKey(file, line)) :
         IF ~r.exists
         THEN UNCHANGED <<tasks, panicked>>
         ELSE IF r.bp = <<>>
         THEN panicked' = TRUE /\ UNCHANGED tasks
         ELSE IF ~PassesGates(r.bp[1], now)
         THEN UNCHANGED <<tasks, panicked>>
         ELSE /\ tasks' = Append(tasks, CaptureTask(Snapshot(r.bp[1], file, line)))
              /\ UNCHANGED panicked
    /\ UNCHANGED sdkVars
    /\ UNCHANGED <<breakpointsCache, registrationCache, mu, stopChan, ppc, fetch,
                   pc, call, now, gets>>

\* ------------------------------------------ CheckAndCaptureWithContext
\* runtime.Caller(2) fails: return.  Nothing of the client is read or written.
CCW_NoCaller(t) ==
    /\ ~panicked
    /\ pc[t] = "idle"
    /\ UNCHANGED vars

\* The call site and the label default; autoRegisterBreakpoint: c.mu.Lock()
CCW_Enter(t, site, label) ==
    /\ ~panicked
    /\ pc[t] = "idle"
    /\ ncalls < MaxCalls
    /\ ncalls' = ncalls + 1
    /\ call' = [call EXCEPT ![t] =
                  [file |-> site.file, line |-> site.line,
                   func |-> JoinDots(site.func), arg |-> label,
                   label |-> AutoLabel(site.func, label)]]
    /\ LockFree
    /\ mu' = [mu EXCEPT !.w = t]
    /\ pc' = [pc EXCEPT ![t] = "ar_check"]
    /\ UNCHANGED sdkVars
    /\ UNCHANGED <<breakpointsCache, registrationCache, stopChan, ppc, fetch, tasks,
                   now, gets, panicked>>

\* if c.registrationCache[regKey] { c.mu.Unlock(); return }
AR_Check(t) ==
    /\ ~panicked
    /\ pc[t] = "ar_check"
    /\ IF RegKey(call[t].file, call[t].line, call[t].func, call[t].label)
            \in registrationCache
       THEN /\ mu' = [mu EXCEPT !.w = None]
            /\ pc' = [pc EXCEPT ![t] = "rlock"]
       ELSE /\ pc' = [pc EXCEPT ![t] = "ar_mark"]
            /\ UNCHANGED mu
    /\ UNCHANGED sdkVars
    /\ UNCHANGED <<breakpointsCache, registrationCache, stopChan, ppc, fetch, tasks,
                   call, now, ncalls, gets, panicked>>

\* An autoRegisterBreakpoint that returns without marking or registering.
AR_SkipsMark(t) ==
    /\ ~panicked
    /\ pc[t] = "ar_mark"
    /\ mu' = [mu EXCEPT !.w = None]
    /\ pc' = [pc EXCEPT ![t] = "rlock"]
    /\ UNCHANGED sdkVars
    /\ UNCHANGED <<breakpointsCache, registrationCache, stopChan, ppc, fetch, tasks,
                   call, now, ncalls, gets, panicked>>

\* c.registrationCache[regKey] = true; c.mu.Unlock(); go func() {...}()
AR_Mark(t) ==
    /\ ~panicked
    /\ pc[t] = "ar_mark"
    /\ LET key == RegKey(call[t].file, call[t].line, call[t].func, call[t].label)
       IN /\ registrationCache' = registrationCache \cup {key}
          /\ tasks' = Append(tasks, RegisterTask(call[t], key))
    /\ mu' = [mu EXCEPT !.w = None]
    /\ pc' = [pc EXCEPT ![t] = "rlock"]
    /\ UNCHANGED sdkVars
    /\ UNCHANGED <<breakpointsCache, stopChan, ppc, fetch, call, now, ncalls, gets,
                   panicked>>

\* c.mu.RLock()
CCW_RLock(t) ==
    /\ ~panicked
    /\ pc[t] = "rlock"
    /\ RLockFree
    /\ mu' = [mu EXCEPT !.r = @ \cup {t}]
    /\ pc' = [pc EXCEPT ![t] = "lookup"]
    /\ UNCHANGED sdkVars
    /\ UNCHANGED <<breakpointsCache, registrationCache, stopChan, ppc, fetch, tasks,
                   call, now, ncalls, gets, panicked>>

\* The line key first, the label key when the line key is absent.
LookupLineFirst(m, cl) ==
    LET byLine == MapGet(m, LineKey(cl.file, cl.line))
    IN IF byLine.exists THEN byLine ELSE MapGet(m, LabelKey(cl.func, cl.label))

\* A lookup that also falls back to the line key when the config under the
\* label key is disabled, expired or exhausted.
LookupSkipsGated(m, cl) ==
    LET byLabel == MapGet(m, LabelKey(cl.func, cl.label))
        byLine  == MapGet(m, LineKey(cl.file, cl.line))
        gated(c) == ~c.Enabled \/ Expired(c, now) \/ MaxReached(c)
    IN IF byLabel.exists /\ ~(gated(byLabel.bp[1]) /\ byLine.exists)
       THEN byLabel ELSE byLine

\* The label key first, the line key when the label key is absent.
Lookup(m, cl) ==
    LET byLabel == MapGet(m, LabelKey(cl.func, cl.label))
    IN IF byLabel.exists THEN byLabel ELSE MapGet(m, LineKey(cl.file, cl.line))

\* The gates with the Enabled test inverted.
PassesGatesCtxInverted(r, t) ==
    /\ r.exists
    /\ ~r.bp[1].Enabled
    /\ ~Expired(r.bp[1], t)
    /\ ~MaxReached(r.bp[1])

\* The gates of CheckAndCaptureWithContext on the (bp, exists) found.
PassesGatesCtx(r, t) ==
    /\ r.exists
    /\ r.bp[1].Enabled
    /\ ~Expired(r.bp[1], t)
    /\ ~MaxReached(r.bp[1])

\* A nil map.
Nil == <<>>

\* ctx.Value(key): interface values are equal when type and value are.
ContextKey(type, name) == [type |-> type, name |-> name]
ContextValue(ctx, key) == IF key \in DOMAIN ctx THEN ctx[key] ELSE Nil

\* extractRequestContext(ctx): the value under contextKey("tracekit.request_context");
\* the values the model stores are maps, so that the type assertion holds.
extractRequestContext(ctx) ==
    ContextValue(ctx, ContextKey("contextKey", "tracekit.request_context"))

\* Snapshot{BreakpointID: bp.ID, FilePath: file, LineNumber: line, ...,
\* RequestContext: requestContext} of CheckAndCaptureWithContext
SnapshotWithContext(c, file, line, requestContext) ==
    [BreakpointID |-> c.ID, FilePath |-> file, LineNumber |-> line,
     RequestContext |-> requestContext]

\* The two map reads, c.mu.RUnlock(), the gates on the config found, and
\* go c.captureSnapshot(snapshot); what follows the unlock reads no shared
\* state.  ctx is the context of the request that the caller handles.
CCW_Lookup(t) ==
    /\ ~panicked
    /\ pc[t] = "lookup"
    /\ mu' = [mu EXCEPT !.r = @ \ {t}]
    /\ pc' = [pc EXCEPT ![t] = "idle"]
    /\ call' = [call EXCEPT ![t] = NoCall]
    /\ LET r == Lookup(breakpointsCache, call[t])
       IN IF PassesGatesCtx(r, now)
          THEN tasks' = Append(tasks,
                           CaptureTask(SnapshotWithContext(r.bp[1], call[t].file,
                               call[t].line, extractRequestContext(gin[t].requestCtx))))
          ELSE UNCHANGED tasks
    /\ UNCHANGED sdkVars
    /\ UNCHANGED <<breakpointsCache, registrationCache, stopChan, ppc, fetch, now,
                   ncalls, gets, panicked>>

\* ------------------------------------------------- fetchActiveBreakpoints
\* The name under which fetcher f holds c.mu.
Holder(f) == "f" \o ToString(f)

\* A return of fetchActiveBreakpoints that ends the Poller's loop.
ReturnEndsLoop(f) ==
    IF f = 0
    THEN ppc' = "exited" /\ UNCHANGED tasks
    ELSE tasks' = [tasks EXCEPT ![f].st = "done"] /\ UNCHANGED ppc

\* Fetcher f's call of fetchActiveBreakpoints returns to its caller: the Poller
\* goes back to its select, a register task ends.
ReturnTo(f) ==
    IF f = 0
    THEN ppc' = "wait" /\ UNCHANGED tasks
    ELSE tasks' = [tasks EXCEPT ![f].st = "done"] /\ UNCHANGED ppc

\* A failed fetch that stores an empty map.
CacheClearedOnError(cache) == EmptyMap

\* What a failed fetch leaves in c.breakpointsCache: `return err` comes before
\* updateBreakpointCache.
CacheAfterError(cache) == cache

\* c.client.Do(req) fails, or the status is not 200, or the body does not
\* decode: return err.
Fetch_Error(f, kind) ==
    /\ ~panicked
    /\ fetch[f].st = "inflight"
    /\ kind \in {"transport", "status", "decode"}
    /\ fetch' = [fetch EXCEPT ![f] = IdleFetch]
    /\ breakpointsCache' = CacheAfterError(breakpointsCache)
    /\ ReturnTo(f)
    /\ UNCHANGED sdkVars
    /\ UNCHANGED <<registrationCache, mu, stopChan, pc, call, now, ncalls, gets,
                   panicked>>

\* Status 200 and a decoded body; updateBreakpointCache: c.mu.Lock(), the new
\* map is built and stored into c.breakpointsCache.  The map under construction
\* is local to the fetcher until the store.
Fetch_Response(f, resp) ==
    /\ ~panicked
    /\ fetch[f].st = "inflight"
    /\ LockFree
    /\ mu' = [mu EXCEPT !.w = Holder(f)]
    /\ breakpointsCache' = NewCache(breakpointsCache, resp)
    /\ fetch' = [fetch EXCEPT ![f] = [st |-> "swapped", resp |-> resp,
                                      old |-> breakpointsCache]]
    /\ UNCHANGED sdkVars
    /\ UNCHANGED <<registrationCache, stopChan, ppc, tasks, pc, call, now, ncalls,
                   gets, panicked>>

\* updateBreakpointCache without its deferred Unlock: the fetcher returns with
\* the write lock still in its hands.
Update_KeepsLock(f) ==
    /\ ~panicked
    /\ fetch[f].st = "swapped"
    /\ fetch' = [fetch EXCEPT ![f] = IdleFetch]
    /\ ReturnTo(f)
    /\ UNCHANGED sdkVars
    /\ UNCHANGED <<breakpointsCache, registrationCache, mu, stopChan, pc, call, now,
                   ncalls, gets, panicked>>

\* The deferred c.mu.Unlock(); fetchActiveBreakpoints returns nil
Update_Unlock(f) ==
    /\ ~panicked
    /\ fetch[f].st = "swapped"
    /\ mu' = [mu EXCEPT !.w = None]
    /\ fetch' = [fetch EXCEPT ![f] = IdleFetch]
    /\ ReturnTo(f)
    /\ UNCHANGED sdkVars
    /\ UNCHANGED <<breakpointsCache, registrationCache, stopChan, pc, call, now,
                   ncalls, gets, panicked>>

\* ------------------------------------------------------------ the Poller
\* The GET of fetchActiveBreakpoints is sent by the Poller.
SendPoll ==
    /\ ~panicked
    /\ gets < MaxFetches
    /\ gets' = gets + 1
    /\ ppc' = "fetching"
    /\ fetch' = [fetch EXCEPT ![0] = [st |-> "inflight", resp |-> <<>>, old |-> EmptyMap]]
    /\ UNCHANGED sdkVars
    /\ UNCHANGED <<breakpointsCache, registrationCache, mu, stopChan, tasks, pc,
                   call, now, ncalls, panicked>>

\* A Poller that goes to its select without the fetch on startup.
StartWithoutFetch ==
    /\ ~panicked
    /\ ppc = "new"
    /\ ppc' = "wait"
    /\ UNCHANGED sdkVars
    /\ UNCHANGED <<breakpointsCache, registrationCache, mu, stopChan, fetch, tasks,
                   pc, call, now, ncalls, gets, panicked>>

\* Start: go c.pollBreakpoints(), which fetches immediately on startup.
Start ==
    /\ ppc = "new"
    /\ SendPoll

\* select: case <-ticker.C: c.fetchActiveBreakpoints()
Poller_Tick ==
    /\ ppc = "wait"
    /\ SendPoll

\* select: case <-c.stopChan: return
Poller_Exit ==
    /\ ~panicked
    /\ ppc = "wait"
    /\ stopChan = "closed"
    /\ ppc' = "exited"
    /\ UNCHANGED sdkVars
    /\ UNCHANGED <<breakpointsCache, registrationCache, mu, stopChan, fetch, tasks,
                   pc, call, now, ncalls, gets, panicked>>

\* A Stop that also ends every background task.
StopCancelsTasks ==
    /\ ~panicked
    /\ IF stopChan = "open"
       THEN stopChan' = "closed" /\ UNCHANGED panicked
       ELSE panicked' = TRUE /\ UNCHANGED stopChan
    /\ tasks' = [i \in DOMAIN tasks |->
                   IF tasks[i].kind = "capture" THEN DoneCapture
                   ELSE [tasks[i] EXCEPT !.st = "done"]]
    /\ UNCHANGED sdkVars
    /\ UNCHANGED <<breakpointsCache, registrationCache, mu, ppc, fetch, pc,
                   call, now, ncalls, gets>>

\* A Stop that closes the channel once and returns when it is closed already.
StopOnce ==
    /\ ~panicked
    /\ stopChan' = "closed"
    /\ UNCHANGED sdkVars
    /\ UNCHANGED <<breakpointsCache, registrationCache, mu, ppc, fetch, tasks, pc,
                   call, now, ncalls, gets, panicked>>

\* Stop: close(c.stopChan); closing a closed channel panics.
Stop ==
    /\ ~panicked
    /\ IF stopChan = "open"
       THEN stopChan' = "closed" /\ UNCHANGED panicked
       ELSE panicked' = TRUE /\ UNCHANGED stopChan
    /\ UNCHANGED sdkVars
    /\ UNCHANGED <<breakpointsCache, registrationCache, mu, ppc, fetch, tasks, pc,
                   call, now, ncalls, gets>>

\* ------------------------------------------------------ the register task
\* A failed registration that unmarks its key, so that a later call retries.
RegCacheUnmarkedOnFailure(cache, key) == cache \ {key}

\* What a failed registration leaves in c.registrationCache: the task returns.
RegCacheAfterFailure(cache, key) == cache

\* A failed registration that refreshes the Registry all the same.
Register_FailedRefreshes(i, outcome) ==
    /\ ~panicked
    /\ i \in TaskIds /\ IsRegister(i)
    /\ tasks[i].st = "posting"
    /\ outcome \notin {StatusOK, StatusCreated}
    /\ gets < MaxFetches
    /\ gets' = gets + 1
    /\ tasks' = [tasks EXCEPT ![i].st = "refresh"]
    /\ fetch' = [fetch EXCEPT ![i] = [st |-> "inflight", resp |-> <<>>, old |-> EmptyMap]]
    /\ UNCHANGED sdkVars
    /\ UNCHANGED <<breakpointsCache, registrationCache, mu, stopChan, ppc, pc, call,
                   now, ncalls, panicked>>

\* The POST ends with an error or a status other than 200 and 201: return.
Register_Failed(i, outcome) ==
    /\ ~panicked
    /\ i \in TaskIds /\ IsRegister(i)
    /\ tasks[i].st = "posting"
    /\ outcome \notin {StatusOK, StatusCreated}
    /\ tasks' = [tasks EXCEPT ![i].st = "failed"]
    /\ registrationCache' = RegCacheAfterFailure(registrationCache, tasks[i].reg.key)
    /\ UNCHANGED sdkVars
    /\ UNCHANGED <<breakpointsCache, mu, stopChan, ppc, fetch, pc, call, now,
                   ncalls, gets, panicked>>

\* The POST ends with 200 or 201: time.Sleep, then c.fetchActiveBreakpoints(),
\* whose GET is sent.
Register_Refresh(i, outcome) ==
    /\ ~panicked
    /\ i \in TaskIds /\ IsRegister(i)
    /\ tasks[i].st = "posting"
    /\ outcome \in {StatusOK, StatusCreated}
    /\ gets < MaxFetches
    /\ gets' = gets + 1
    /\ tasks' = [tasks EXCEPT ![i].st = "refresh"]
    /\ fetch' = [fetch EXCEPT ![i] = [st |-> "inflight", resp |-> <<>>, old |-> EmptyMap]]
    /\ UNCHANGED sdkVars
    /\ UNCHANGED <<breakpointsCache, registrationCache, mu, stopChan, ppc, pc, call,
                   now, ncalls, panicked>>

\* ------------------------------------------------------- the capture task
\* A capture task that counts its capture in the cached config.
Capture_RunCounts(i, outcome) ==
    /\ ~panicked
    /\ i \in TaskIds /\ IsCapture(i)
    /\ tasks[i].st = "start"
    /\ outcome \in HttpOutcomes
    /\ tasks' = [tasks EXCEPT ![i] = DoneCapture]
    /\ breakpointsCache' =
         [k \in DOMAIN breakpointsCache |->
            IF breakpointsCache[k].ID = tasks[i].snapshot.BreakpointID
            THEN [breakpointsCache[k] EXCEPT !.CaptureCount = @ + 1]
            ELSE breakpointsCache[k]]
    /\ UNCHANGED sdkVars
    /\ UNCHANGED <<registrationCache, mu, stopChan, ppc, fetch,
                   pc, call, now, ncalls, gets, panicked>>

\* A capture task that keeps its snapshot for another try when the POST fails.
Capture_RunRetries(i, outcome) ==
    /\ ~panicked
    /\ i \in TaskIds /\ IsCapture(i)
    /\ tasks[i].st = "start"
    /\ outcome \in HttpOutcomes
    /\ tasks' = IF outcome \in {StatusOK, StatusCreated}
                THEN [tasks EXCEPT ![i] = DoneCapture]
                ELSE Append(tasks, tasks[i])
    /\ UNCHANGED sdkVars
    /\ UNCHANGED <<breakpointsCache, registrationCache, mu, stopChan, ppc, fetch,
                   pc, call, now, ncalls, gets, panicked>>

\* captureSnapshot runs: the snapshot is marshalled, c.client.Do(req) is called
\* and ends with an error or any status; the task logs and returns.
Capture_Run(i, outcome) ==
    /\ ~panicked
    /\ i \in TaskIds /\ IsCapture(i)
    /\ tasks[i].st = "start"
    /\ outcome \in HttpOutcomes
    /\ tasks' = [tasks EXCEPT ![i] = DoneCapture]
    /\ UNCHANGED sdkVars
    /\ UNCHANGED <<breakpointsCache, registrationCache, mu, stopChan, ppc, fetch,
                   pc, call, now, ncalls, gets, panicked>>

\* -------------------------------------------------------------- the clock
ClockTick ==
    /\ ~panicked
    /\ now < MaxTime
    /\ now' = now + 1
    /\ UNCHANGED sdkVars
    /\ UNCHANGED <<breakpointsCache, registrationCache, mu, stopChan, ppc, fetch,
                   tasks, pc, call, ncalls, gets, panicked>>

\* ----------------------------------------------------- the specifications
\* The steps of the Facade for the callers in thr.
FacadeStep(thr) ==
    \/ \E l \in Locations : CheckAndCapture(l[1], l[2])
    \/ \E t \in thr : CCW_NoCaller(t)
    \/ \E t \in thr, s \in Sites, lb \in Labels : CCW_Enter(t, s, lb)
    \/ \E t \in thr : AR_Check(t)
    \/ \E t \in thr : AR_Mark(t)
    \/ \E t \in thr : CCW_RLock(t)
    \/ \E t \in thr : CCW_Lookup(t)

\* The steps of the fetchers when the backend answers with a body of resps.
FetchStep(resps) ==
    \/ \E f \in FetcherIds, k \in {"transport", "status", "decode"} : Fetch_Error(f, k)
    \/ \E f \in FetcherIds, r \in resps : Fetch_Response(f, r)
    \/ \E f \in FetcherIds : Update_Unlock(f)

\* The steps of the background tasks.
TaskStep ==
    \/ \E i \in TaskIds, o \in HttpOutcomes : Register_Failed(i, o)
    \/ \E i \in TaskIds, o \in HttpOutcomes : Register_Refresh(i, o)
    \/ \E i \in TaskIds, o \in HttpOutcomes : Capture_Run(i, o)

\* The whole client: two concurrent callers, every response, Stop.
Next ==
    \/ FacadeStep(Threads)
    \/ FetchStep(Responses)
    \/ TaskStep
    \/ Start
    \/ Poller_Tick
    \/ Poller_Exit
    \/ Stop
    \/ ClockTick

Spec == Init /\ [][Next]_vars

\* The capture path against the Poller: one goroutine in
\* CheckAndCaptureWithContext, any number in CheckAndCapture, every response,
\* the clock; the client is never stopped.
NextFacade ==
    \/ FacadeStep({"c1"})
    \/ FetchStep(Responses)
    \/ TaskStep
    \/ Start
    \/ Poller_Tick
    \/ ClockTick

SpecFacade == Init /\ [][NextFacade]_vars

\* Auto-registration under contention: two goroutines in
\* CheckAndCaptureWithContext at once, the backend listing nothing or the one
\* active breakpoint; the clock stands still and the client is never stopped.
RegisterResponses == {<<>>, <<BpActive>>}

NextRegister ==
    \/ FacadeStep(Threads)
    \/ FetchStep(RegisterResponses)
    \/ TaskStep
    \/ Start
    \/ Poller_Tick

SpecRegister == Init /\ [][NextRegister]_vars

\* The keys of the Registry: one goroutine in CheckAndCaptureWithContext, the
\* backend listing configs that share a location, in either order; the clock
\* stands still and the client is never stopped.
LookupResponses ==
    { <<>>, <<BpActive>>, <<BpActive, BpDisabled>>, <<BpDisabled, BpActive>>,
      <<BpExhausted, BpExpiring>> }

NextLookup ==
    \/ FacadeStep({"c1"})
    \/ FetchStep(LookupResponses)
    \/ TaskStep
    \/ Start
    \/ Poller_Tick

SpecLookup == Init /\ [][NextLookup]_vars

\* The context-aware entry point while the clock runs and every response
\* lists a gated config with a label and an enabled one without.
FallbackResponses ==
    { <<BpExpiringOff, BpLineOnly>>, <<BpLabelExpiring, BpLineOnly>>,
      <<BpExhausted, BpExpiring>> }

NextFallback ==
    \/ FacadeStep({"c1"})
    \/ FetchStep(FallbackResponses)
    \/ TaskStep
    \/ Start
    \/ Poller_Tick
    \/ ClockTick

SpecFallback == Init /\ [][NextFallback]_vars

\* The Poller alone, with Stop: every response lists at least one breakpoint;
\* the clock runs.
PollerResponses == {<<BpActive>>, <<BpDisabled>>, <<BpExhausted, BpExpiring>>}

NextPoller ==
    \/ Start
    \/ Poller_Tick
    \/ Poller_Exit
    \/ Stop
    \/ FetchStep(PollerResponses)
    \/ ClockTick

SpecPoller == Init /\ [][NextPoller]_vars

\* Shutdown: one goroutine in the Facade, the Poller, the background tasks and
\* Stop; the clock stands still.
NextShutdown ==
    \/ FacadeStep({"c1"})
    \/ FetchStep(RegisterResponses)
    \/ TaskStep
    \/ Start
    \/ Poller_Tick
    \/ Poller_Exit
    \/ Stop

SpecShutdown == Init /\ [][NextShutdown]_vars

\* ------------------------------------------------------------- liveness
\* The HTTP clients: a Timeout of zero means no timeout.
SharedClient == [Timeout |-> 10]
DefaultClient == [Timeout |-> 0]

\* The client each call goes through: c.client.Do for the poll and the
\* capture, http.DefaultClient.Do for the auto-register POST.
PollClient == SharedClient
CaptureClient == SharedClient
RegisterClient == DefaultClient

\* A call through this client ends by itself, with a timeout error at the latest.
Bounded(client) == client.Timeout > 0

\* gets counts the GETs up to MaxFetches; the Poller goes on fetching for
\* every tick after that.
Poller_TickOn ==
    /\ ~panicked
    /\ ppc = "wait"
    /\ gets = MaxFetches
    /\ ppc' = "fetching"
    /\ fetch' = [fetch EXCEPT ![0] = [st |-> "inflight", resp |-> <<>>, old |-> EmptyMap]]
    /\ UNCHANGED sdkVars
    /\ UNCHANGED <<breakpointsCache, registrationCache, mu, stopChan, tasks, pc,
                   call, now, ncalls, gets, panicked>>

\* The refresh of a register task once gets has reached MaxFetches.
Register_RefreshOn(i, outcome) ==
    /\ ~panicked
    /\ i \in TaskIds /\ IsRegister(i)
    /\ tasks[i].st = "posting"
    /\ outcome \in {StatusOK, StatusCreated}
    /\ gets = MaxFetches
    /\ tasks' = [tasks EXCEPT ![i].st = "refresh"]
    /\ fetch' = [fetch EXCEPT ![i] = [st |-> "inflight", resp |-> <<>>, old |-> EmptyMap]]
    /\ UNCHANGED sdkVars
    /\ UNCHANGED <<breakpointsCache, registrationCache, mu, stopChan, ppc, pc, call,
                   now, ncalls, gets, panicked>>

\* The breakpoint the backend creates for the payload of an auto-register
\* POST: enabled, without expiry, without capture limit.
Created(reg) ==
    [ID |-> "r:" \o reg.key, FilePath |-> reg.file, FunctionName |-> reg.func,
     Label |-> reg.label, LineNumber |-> reg.line, MaxCaptures |-> 0,
     CaptureCount |-> 0, ExpireAt |-> NilTime, Enabled |-> TRUE]

\* The register tasks whose POST was answered with 200 or 201.
Registered(task) == task.kind = "register" /\ task.st \in {"refresh", "done"}

\* The body of a 200 response of a backend that lists, from the moment it has
\* answered a registration, the breakpoint it created for it.
BackendLists ==
    LET ok == SelectSeq(tasks, Registered)
    IN [j \in 1..Len(ok) |-> Created(ok[j].reg)]

\* One goroutine in CheckAndCaptureWithContext, the Poller never stopped and
\* never out of ticks, the backend above; the clock stands still.
NextLive ==
    \/ \E s \in Sites, lb \in Labels : CCW_Enter("c1", s, lb)
    \/ AR_Check("c1")
    \/ AR_Mark("c1")
    \/ CCW_RLock("c1")
    \/ CCW_Lookup("c1")
    \/ \E f \in FetcherIds, k \in {"transport", "status", "decode"} : Fetch_Error(f, k)
    \/ \E f \in FetcherIds : Fetch_Response(f, BackendLists)
    \/ \E f \in FetcherIds : Update_Unlock(f)
    \/ TaskStep
    \/ \E i \in TaskIds, o \in HttpOutcomes : Register_RefreshOn(i, o)
    \/ Start
    \/ Poller_Tick
    \/ Poller_TickOn

\* What the scheduling guarantees: the Poller goroutine runs and its ticker
\* ticks; a goroutine inside the Facade runs, and gets the read lock if the
\* lock is free again and again; a deferred Unlock runs; an HTTP call
\* through a client with a timeout ends.  A call through a client without a
\* timeout ends when the backend answers, if it does.
LiveFairness ==
    /\ WF_vars(Start \/ Poller_Tick \/ Poller_TickOn)
    /\ WF_vars(AR_Check("c1") \/ AR_Mark("c1") \/ CCW_Lookup("c1"))
    /\ SF_vars(CCW_RLock("c1"))
    /\ \A f \in FetcherIds : WF_vars(Update_Unlock(f))
    /\ \A f \in FetcherIds :
         WF_vars(/\ Bounded(PollClient)
                 /\ \/ \E k \in {"transport", "status", "decode"} : Fetch_Error(f, k)
                    \/ Fetch_Response(f, BackendLists))
    /\ \A i \in 1..MaxTasks :
         WF_vars(Bounded(CaptureClient) /\ \E o \in HttpOutcomes : Capture_Run(i, o))
    /\ \A i \in 1..MaxTasks :
         WF_vars(/\ Bounded(RegisterClient)
                 /\ \E o \in HttpOutcomes :
                      \/ Register_Failed(i, o)
                      \/ Register_Refresh(i, o)
                      \/ Register_RefreshOn(i, o))

SpecLive == Init /\ [][NextLive]_vars /\ LiveFairness

\* ------------------------------------------- the backend answers, then the
\* client stores: c.client.Do(req) returns the body the backend wrote when it
\* handled the GET; the decode and updateBreakpointCache come later, and other
\* goroutines run in between.
Backend_Answers(f) ==
    /\ ~panicked
    /\ fetch[f].st = "inflight"
    /\ fetch' = [fetch EXCEPT ![f] = [st |-> "answered", resp |-> BackendLists,
                                      old |-> EmptyMap]]
    /\ UNCHANGED sdkVars
    /\ UNCHANGED <<breakpointsCache, registrationCache, mu, stopChan, ppc, tasks,
                   pc, call, now, ncalls, gets, panicked>>

\* A store that drops a body older than what the backend lists by now.
Fetch_DecodedDropsStale(f) ==
    /\ ~panicked
    /\ fetch[f].st = "answered"
    /\ LockFree
    /\ mu' = [mu EXCEPT !.w = Holder(f)]
    /\ breakpointsCache' = IF fetch[f].resp = BackendLists
                           THEN NewCache(breakpointsCache, fetch[f].resp)
                           ELSE breakpointsCache
    /\ fetch' = [fetch EXCEPT ![f] = [st |-> "swapped", resp |-> fetch[f].resp,
                                      old |-> breakpointsCache]]
    /\ UNCHANGED sdkVars
    /\ UNCHANGED <<registrationCache, stopChan, ppc, tasks, pc, call, now, ncalls,
                   gets, panicked>>

\* Status 200 and the body decoded; updateBreakpointCache: c.mu.Lock(), the
\* map built from the body is stored into c.breakpointsCache.
Fetch_Decoded(f) ==
    /\ ~panicked
    /\ fetch[f].st = "answered"
    /\ LockFree
    /\ mu' = [mu EXCEPT !.w = Holder(f)]
    /\ breakpointsCache' = NewCache(breakpointsCache, fetch[f].resp)
    /\ fetch' = [fetch EXCEPT ![f] = [st |-> "swapped", resp |-> fetch[f].resp,
                                      old |-> breakpointsCache]]
    /\ UNCHANGED sdkVars
    /\ UNCHANGED <<registrationCache, stopChan, ppc, tasks, pc, call, now, ncalls,
                   gets, panicked>>

\* One goroutine in CheckAndCaptureWithContext, the Poller and the register
\* tasks, each GET answered by the backend before its body is stored.
NextRefresh ==
    \/ \E s \in Sites, lb \in Labels : CCW_Enter("c1", s, lb)
    \/ AR_Check("c1")
    \/ AR_Mark("c1")
    \/ CCW_RLock("c1")
    \/ CCW_Lookup("c1")
    \/ \E f \in FetcherIds, k \in {"transport", "status", "decode"} : Fetch_Error(f, k)
    \/ \E f \in FetcherIds : Backend_Answers(f)
    \/ \E f \in FetcherIds : Fetch_Decoded(f)
    \/ \E f \in FetcherIds : Update_Unlock(f)
    \/ TaskStep
    \/ Start
    \/ Poller_Tick

SpecRefresh == Init /\ [][NextRefresh]_vars

\* ------------------------------------------------ scanForSecurityIssues
\* Strings are Go strings of ASCII characters; At is the character at a
\* position, the empty string outside the string.
At(s, i) == IF i >= 1 /\ i <= Len(s) THEN SubSeq(s, i, i) ELSE ""
CharsOf(s) == {At(s, i) : i \in 1..Len(s)}

Digits == CharsOf("0123456789")
\* \w, which decides \b, and [A-Za-z0-9_-].  \s is the space alone: every
\* other white space is escaped in the output of json.Marshal.
WordChars ==
    Digits \cup CharsOf("abcdefghijklmnopqrstuvwxyz")
           \cup CharsOf("ABCDEFGHIJKLMNOPQRSTUVWXYZ") \cup {"_"}
TokenChars == WordChars \cup {"-"}

\* (?i) on ASCII: a letter of the text matches a lower-case letter of the
\* pattern when it is that letter in either case.
FoldTable ==
    LET lower == "abcdefghijklmnopqrstuvwxyz"
        upper == "ABCDEFGHIJKLMNOPQRSTUVWXYZ"
    IN [c \in CharsOf(upper) |-> At(lower, CHOOSE i \in 1..Len(upper) : At(upper, i) = c)]
ToLowerChar(c) == IF c \in DOMAIN FoldTable THEN FoldTable[c] ELSE c

\* The literal lit stands in s at position p.
HasAt(s, p, lit) ==
    /\ p >= 1
    /\ p + Len(lit) - 1 <= Len(s)
    /\ SubSeq(s, p, p + Len(lit) - 1) = lit

\* The lower-case literal lit stands in s at position p, in any case.
HasAtFold(s, p, lit) ==
    /\ p >= 1
    /\ p + Len(lit) - 1 <= Len(s)
    /\ \A i \in 1..Len(lit) : ToLowerChar(At(s, p + i - 1)) = At(lit, i)

\* The position after the longest run, from p, of characters of class.
RECURSIVE Span(_, _, _)
Span(s, p, class) ==
    IF p <= Len(s) /\ At(s, p) \in class THEN Span(s, p + 1, class) ELSE p

\* The position after the longest run, from p, of characters not in stop.
RECURSIVE SpanNot(_, _, _)
SpanNot(s, p, stop) ==
    IF p <= Len(s) /\ At(s, p) \notin stop THEN SpanNot(s, p + 1, stop) ELSE p

\* The name pattern without (?i).
SensitiveNameExact(name) ==
    \E p \in 1..Len(name), w \in {"password", "secret", "token", "key", "credential"} :
        HasAt(name, p, w)

\* sensitiveNamePattern: (?i)(password|secret|token|key|credential)
SensitiveName(name) ==
    \E p \in 1..Len(name), w \in {"password", "secret", "token", "key", "credential"} :
        HasAtFold(name, p, w)

\* \s*[=:]\s*["']? from position e: the positions where the value may start.
ValueStarts(b, e) ==
    LET q == Span(b, e, {" "})
        r == Span(b, q + 1, {" "})
    IN IF At(b, q) \notin {"=", ":"} THEN {}
       ELSE IF At(b, r) \in {"\"", "'"} THEN {r + 1} ELSE {r}

\* (?i)(password|passwd|pwd)\s*[=:]\s*["']?[^\s"']{6,}
MatchPassword(b) ==
    \E p \in 1..Len(b), w \in {"password", "passwd", "pwd"} :
        /\ HasAtFold(b, p, w)
        /\ \E v \in ValueStarts(b, p + Len(w)) :
             SpanNot(b, v, {" ", "\"", "'"}) - v >= 6

\* (?i)(api[_-]?key|apikey)\s*[=:]\s*["']?[A-Za-z0-9_-]{20,}
MatchAPIKey(b) ==
    \E p \in 1..Len(b) :
        /\ HasAtFold(b, p, "api")
        /\ \E k \in {p + 3} \cup (IF At(b, p + 3) \in {"_", "-"} THEN {p + 4} ELSE {}) :
             /\ HasAtFold(b, k, "key")
             /\ \E v \in ValueStarts(b, k + 3) : Span(b, v, TokenChars) - v >= 20

\* eyJ[A-Za-z0-9_-]*\.eyJ[A-Za-z0-9_-]*\.[A-Za-z0-9_-]*
MatchJWT(b) ==
    \E p \in 1..Len(b) :
        /\ HasAt(b, p, "eyJ")
        /\ LET q == Span(b, p + 3, TokenChars)
           IN /\ At(b, q) = "."
              /\ HasAt(b, q + 1, "eyJ")
              /\ At(b, Span(b, q + 4, TokenChars)) = "."

AllDigits(s, a, e) == e <= Len(s) /\ \A i \in a..e : At(s, i) \in Digits

\* \b(?:4[0-9]{12}(?:[0-9]{3})?|5[1-5][0-9]{14})\b
MatchCreditCard(b) ==
    \E p \in 1..Len(b) :
        /\ At(b, p - 1) \notin WordChars
        /\ \/ /\ At(b, p) = "4"
              /\ \E e \in {p + 12, p + 15} :
                   AllDigits(b, p + 1, e) /\ At(b, e + 1) \notin WordChars
           \/ /\ At(b, p) = "5"
              /\ At(b, p + 1) \in CharsOf("12345")
              /\ AllDigits(b, p + 2, p + 15)
              /\ At(b, p + 16) \notin WordChars

\* sensitivePatterns: a Go map from data type to pattern.
PatternNames == {"password", "api_key", "jwt", "credit_card"}
Matches(dataType, b) ==
    CASE dataType = "password" -> MatchPassword(b)
      [] dataType = "api_key" -> MatchAPIKey(b)
      [] dataType = "jwt" -> MatchJWT(b)
      [] dataType = "credit_card" -> MatchCreditCard(b)

\* `for dataType, pattern := range sensitivePatterns` visits the entries of a
\* Go map, in an order that the language leaves unspecified and that differs
\* from one loop to the next.
KeyOrders(keys) ==
    {o \in [1..Cardinality(keys) -> keys] : \A i, j \in DOMAIN o : i # j => o[i] # o[j]}

\* The values of variables: strings, ints, and channels, which json.Marshal
\* rejects.
StringValue(s) == [kind |-> "string", s |-> s, n |-> 0]
IntValue(n) == [kind |-> "int", s |-> "", n |-> n]
ChanValue == [kind |-> "chan", s |-> "", n |-> 0]

\* The escapes of json.Marshal for the characters of the model's strings.
RECURSIVE EscapeJSON(_)
EscapeJSON(s) ==
    IF s = "" THEN ""
    ELSE (IF At(s, 1) \in {"\"", "\\"} THEN "\\" \o At(s, 1) ELSE At(s, 1))
         \o EscapeJSON(SubSeq(s, 2, Len(s)))

\* serialized, err := json.Marshal(value)
Marshal(value) ==
    CASE value.kind = "string" -> [ok |-> TRUE, bytes |-> "\"" \o EscapeJSON(value.s) \o "\""]
      [] value.kind = "int" -> [ok |-> TRUE, bytes |-> ToString(value.n)]
      [] value.kind = "chan" -> [ok |-> FALSE, bytes |-> ""]

\* fmt.Sprintf("[%T]", value)
TypeTag(value) ==
    StringValue("[" \o (IF value.kind = "chan" THEN "chan int" ELSE value.kind) \o "]")

Redacted == StringValue("[REDACTED]")

SecurityFlag(type, severity, variable) ==
    [Type |-> type, Severity |-> severity, Variable |-> variable]

\* The inner loop: the first pattern, in the order of this iteration, that
\* matches; "" when none does.
RECURSIVE FirstMatch(_, _, _)
FirstMatch(order, i, matching) ==
    IF i > Len(order) THEN ""
    ELSE IF order[i] \in matching THEN order[i]
    ELSE FirstMatch(order, i + 1, matching)

\* A loop body that flags a variable under its name and under its value.
ScanVariableTwice(name, value) ==
    {[value |-> Redacted,
      flags |-> <<SecurityFlag("sensitive_variable_name", "medium", name),
                  SecurityFlag("sensitive_data_jwt", "high", name)>>]}

\* The body of the outer loop for one variable: the value stored in sanitized
\* and the flags appended, for every order of the inner loop.
ScanVariable(name, value) ==
    IF SensitiveName(name)
    THEN {[value |-> Redacted,
           flags |-> <<SecurityFlag("sensitive_variable_name", "medium", name)>>]}
    ELSE LET m == Marshal(value)
         IN IF ~m.ok
            THEN {[value |-> TypeTag(value), flags |-> <<>>]}
            ELSE LET matching == {t \in PatternNames : Matches(t, m.bytes)}
                 IN {LET t == FirstMatch(o, 1, matching)
                     IN IF t = ""
                        THEN [value |-> value, flags |-> <<>>]
                        ELSE [value |-> Redacted,
                              flags |-> <<SecurityFlag("sensitive_data_" \o t, "high",
                                                       name)>>] :
                     o \in KeyOrders(PatternNames)}

\* A loop that gives up at the first value that cannot be serialized.
RECURSIVE ScanLoopAborts(_, _, _, _, _)
ScanLoopAborts(names, outcome, i, sanitized, flags) ==
    IF i > Len(names) \/ outcome[names[i]].value.s = "[chan int]"
    THEN [sanitized |-> sanitized, flags |-> flags]
    ELSE ScanLoopAborts(names, outcome, i + 1,
                        MapPut(sanitized, names[i], outcome[names[i]].value),
                        flags \o outcome[names[i]].flags)

\* `for name, value := range variables`, another range over a Go map, visiting the names in the order
\* names, each with the outcome chosen for it.
RECURSIVE ScanLoop(_, _, _, _, _)
ScanLoop(names, outcome, i, sanitized, flags) ==
    IF i > Len(names) THEN [sanitized |-> sanitized, flags |-> flags]
    ELSE ScanLoop(names, outcome, i + 1,
                  MapPut(sanitized, names[i], outcome[names[i]].value),
                  flags \o outcome[names[i]].flags)

\* What scanForSecurityIssues(variables) can return.
scanForSecurityIssues(variables) ==
    LET outcomes == [name \in DOMAIN variables |-> ScanVariable(name, variables[name])]
    IN {ScanLoop(names, outcome, 1, EmptyMap, <<>>) :
          names \in KeyOrders(DOMAIN variables),
          outcome \in {f \in [DOMAIN variables -> UNION {outcomes[x] : x \in DOMAIN variables}] :
                          \A name \in DOMAIN variables : f[name] \in outcomes[name]}}

\* The variables maps the host passes: plain values, a sensitive name, a
\* JWT, a JWT behind "pwd=", a card number, an API key, a channel.
VarMaps ==
    { <<>>,
      "amount" :> IntValue(10),
      "apiKey" :> StringValue("hello"),
      "apiKey" :> ChanValue,
      "PASSWORD" :> IntValue(10),
      "x" :> StringValue("eyJh.eyJz.sig"),
      "x" :> StringValue("pwd=eyJh.eyJz.sig"),
      "x" :> StringValue("4111111111111"),
      "x" :> StringValue("api_key=abcdefghij0123456789"),
      "x" :> ChanValue,
      "x" :> StringValue("[REDACTED]"),
      ("amount" :> IntValue(10)) @@ ("apiKey" :> StringValue("eyJh.eyJz.sig")),
      ("amount" :> ChanValue) @@ ("x" :> StringValue("eyJh.eyJz.sig")),
      ("x" :> StringValue("eyJh.eyJz.sig")) @@ ("y" :> StringValue("4111111111111")) }

\* sanitizedVars, securityFlags := c.scanForSecurityIssues(variables), for
\* each map of the model: the scan reads nothing but its argument.
Scans == [variables \in VarMaps |-> scanForSecurityIssues(variables)]

\* Snapshot{BreakpointID: bp.ID, FilePath: filePath, LineNumber: lineNumber,
\* Variables: sanitizedVars, SecurityFlags: securityFlags, ...} of
\* CheckAndCapture with a traced context.
SnapshotTraced(c, file, line, scan) ==
    [BreakpointID |-> c.ID, FilePath |-> file, LineNumber |-> line,
     Variables |-> scan.sanitized, SecurityFlags |-> scan.flags,
     TraceID |-> "trace", SpanID |-> "span", RequestContext |-> <<>>]

\* Snapshot{BreakpointID: bp.ID, FilePath: filePath, LineNumber: lineNumber,
\* Variables: sanitizedVars, SecurityFlags: securityFlags, ...} of
\* CheckAndCapture: TraceID, SpanID and RequestContext are left at their zero
\* values.  ServiceName, StackTrace and CapturedAt are not modelled.
SnapshotOf(c, file, line, scan) ==
    [BreakpointID |-> c.ID, FilePath |-> file, LineNumber |-> line,
     Variables |-> scan.sanitized, SecurityFlags |-> scan.flags,
     TraceID |-> "", SpanID |-> "", RequestContext |-> <<>>]

\* go c.captureSnapshot(snapshot); variables is the argument of the
\* invocation, kept beside the task for the record.
ScanTask(s, variables) ==
    [kind |-> "capture", st |-> "start", snapshot |-> s, reg |-> NoReg,
     variables |-> variables]

\* A scan that redacts in the map it was given.
VariablesRedactedInPlace(variables, scan) == scan.sanitized

\* The caller's map once the scan has returned: the loop reads variables and
\* assigns to sanitized, a map of its own, and to nothing else.
VariablesAfterScan(variables, scan) == variables

\* CheckAndCapture(filePath, lineNumber, variables), the whole handler with
\* the scan of its variables.
CheckAndCaptureVars(file, line, variables) ==
    /\ ~panicked
    /\ ncalls < MaxCalls
    /\ ncalls' = ncalls + 1
    /\ \E r \in RacyGet(LineKey(file, line)) :
         IF ~r.exists
         THEN UNCHANGED <<tasks, panicked>>
         ELSE IF r.bp = <<>>
         THEN panicked' = TRUE /\ UNCHANGED tasks
         ELSE IF ~PassesGates(r.bp[1], now)
         THEN UNCHANGED <<tasks, panicked>>
         ELSE /\ \E scan \in Scans[variables] :
                   tasks' = Append(tasks,
                               ScanTask(SnapshotOf(r.bp[1], file, line, scan),
                                        VariablesAfterScan(variables, scan)))
              /\ UNCHANGED panicked
    /\ UNCHANGED sdkVars
    /\ UNCHANGED <<breakpointsCache, registrationCache, mu, stopChan, ppc, fetch,
                   pc, call, now, gets>>

\* The capture path with its variables: any number of goroutines in
\* CheckAndCapture, the Poller, the capture tasks; the clock stands still.
NextCapture ==
    \/ \E l \in Locations, v \in VarMaps : CheckAndCaptureVars(l[1], l[2], v)
    \/ FetchStep(RegisterResponses)
    \/ \E i \in TaskIds, o \in HttpOutcomes : Capture_Run(i, o)
    \/ Start
    \/ Poller_Tick

SpecCapture == Init /\ [][NextCapture]_vars

\* ------------------------------------------------------------- NewSDK
\* The functions of package strings that config.go uses.
HasPrefix(s, prefix) == HasAt(s, 1, prefix)
TrimPrefix(s, prefix) ==
    IF HasPrefix(s, prefix) THEN SubSeq(s, Len(prefix) + 1, Len(s)) ELSE s
TrimSuffix(s, suffix) ==
    IF HasAt(s, Len(s) - Len(suffix) + 1, suffix)
    THEN SubSeq(s, 1, Len(s) - Len(suffix)) ELSE s
Contains(s, substr) == \E p \in 1..Len(s) : HasAt(s, p, substr)
\* strings.Index counts from 0 and gives -1 when substr is absent.
Index(s, substr) ==
    IF Contains(s, substr)
    THEN (CHOOSE p \in 1..Len(s) :
            HasAt(s, p, substr) /\ \A q \in 1..(p - 1) : ~HasAt(s, q, substr)) - 1
    ELSE -1

\* extractBaseURL(fullURL): scheme and host of a URL that holds one of the
\* service paths, any other URL as it is.
extractBaseURL(fullURL) ==
    LET hasServicePath ==
            \/ Contains(fullURL, "/v1/traces")
            \/ Contains(fullURL, "/v1/metrics")
            \/ Contains(fullURL, "/api/v1/traces")
            \/ Contains(fullURL, "/api/v1/metrics")
        scheme == IF HasPrefix(fullURL, "https://") THEN "https://"
                  ELSE IF HasPrefix(fullURL, "http://") THEN "http://" ELSE ""
        remaining == TrimPrefix(fullURL, scheme)
        idx == Index(remaining, "/")
    IN IF ~hasServicePath \/ scheme = "" THEN fullURL
       ELSE IF idx # -1 THEN scheme \o SubSeq(remaining, 1, idx)
       ELSE scheme \o remaining

\* resolveEndpoint(endpoint, path, useSSL)
resolveEndpoint(endpoint, path, useSSL) ==
    IF HasPrefix(endpoint, "http://") \/ HasPrefix(endpoint, "https://")
    THEN LET stripped == TrimSuffix(endpoint, "/")
             trimmed == TrimPrefix(TrimPrefix(stripped, "https://"), "http://")
         IN IF Contains(trimmed, "/")
            THEN (IF path = "" THEN extractBaseURL(stripped)
                  ELSE extractBaseURL(stripped) \o path)
            ELSE stripped \o path
    ELSE (IF useSSL THEN "https://" ELSE "http://") \o TrimSuffix(endpoint, "/") \o path

\* The Configs the host builds its SDK from; APIKey and ServiceName are set,
\* TracesPath and MetricsPath are left empty.  Durations are in seconds, 0 is
\* the zero Duration of a field left unset.
Endpoints ==
    {"", "localhost:8081", "localhost:8081/", "http://localhost:8081",
     "http://localhost:8081/", "http://localhost:8081/custom",
     "https://app.tracekit.dev/api/v2/", "http://localhost:8081/v1/traces"}
Configs ==
    [Endpoint : Endpoints, UseSSL : BOOLEAN, EnableCodeMonitoring : BOOLEAN,
     CodeMonitoringPollInterval : {0, 10, 30, 60}]

\* time.NewTicker(30 * time.Second) of pollBreakpoints, in seconds.
TickerPeriod == 30

\* NewSDK(config): the defaults, the three endpoints, and with code
\* monitoring NewSnapshotClient(...).Start(), whose Poller fetches at once.
NewSDK(config) ==
    /\ ~sdk.built
    /\ LET endpoint == IF config.Endpoint = "" THEN "app.tracekit.dev" ELSE config.Endpoint
           interval == IF config.CodeMonitoringPollInterval = 0 THEN 30
                       ELSE config.CodeMonitoringPollInterval
       IN sdk' = [built |-> TRUE, Endpoint |-> endpoint, UseSSL |-> config.UseSSL,
                  CodeMonitoringPollInterval |-> interval,
                  tracesEndpoint |-> resolveEndpoint(endpoint, "/v1/traces", config.UseSSL),
                  metricsEndpoint |-> resolveEndpoint(endpoint, "/v1/metrics", config.UseSSL),
                  snapshotEndpoint |->
                      IF config.EnableCodeMonitoring
                      THEN resolveEndpoint(endpoint, "", config.UseSSL) ELSE "",
                  polling |-> config.EnableCodeMonitoring,
                  elapsed |-> 0,
                  polls |-> IF config.EnableCodeMonitoring THEN <<0>> ELSE <<>>]
    /\ UNCHANGED <<gin, registry, buffer>>
    /\ UNCHANGED clientVars

\* A second passes; the Poller's ticker fires at every multiple of its
\* period and the Poller fetches.
SDK_TimePasses ==
    /\ sdk.built
    /\ sdk.elapsed < MaxElapsed
    /\ LET t == sdk.elapsed + 1
       IN sdk' = [sdk EXCEPT !.elapsed = t,
                             !.polls = IF sdk.polling /\ t % TickerPeriod = 0
                                       THEN Append(@, t) ELSE @]
    /\ UNCHANGED <<gin, registry, buffer>>
    /\ UNCHANGED clientVars

\* The SDK from its construction on: the host builds it from any Config, and
\* time passes.
NextSDK ==
    \/ \E config \in Configs : NewSDK(config)
    \/ SDK_TimePasses

SpecSDK == Init /\ [][NextSDK]_vars

\* -------------------------------------------------------- GinMiddleware
\* The requests of the model: Query is c.Request.URL.Query(), Header is
\* c.Request.Header, each with one value per key.
Requests ==
    {[Method |-> "GET", Path |-> "/pay", ClientIP |-> "10.0.0.1", UserAgent |-> "curl",
      Query |-> EmptyMap, Header |-> ("Authorization" :> "Bearer t")],
     [Method |-> "POST", Path |-> "/orders", ClientIP |-> "10.0.0.2", UserAgent |-> "go",
      Query |-> ("id" :> "7"), Header |-> ("Accept" :> "text/html")]}

\* extractGinRequestContext(c)
extractGinRequestContext(request) ==
    LET headers == [k \in DOMAIN request.Header |->
                      IF k \in {"Authorization", "Cookie", "X-Api-Key"}
                      THEN "[REDACTED]" ELSE request.Header[k]]
        ctx == [method |-> request.Method, path |-> request.Path,
                remote_addr |-> request.ClientIP, user_agent |-> request.UserAgent,
                headers |-> headers]
    IN IF DOMAIN request.Query # {}
       THEN ctx @@ [query_params |-> request.Query]
       ELSE ctx

\* GinMiddleware's handler function, up to the handler of the route:
\* c.Set(string(requestContextKey), requestContext) stores the map in the
\* gin.Context under a key of type string; otelMiddleware(c) puts the span
\* into the request's context.
GinMiddleware(t, request) ==
    /\ ~panicked
    /\ pc[t] = "idle"
    /\ ~gin[t].handling
    /\ gin' = [gin EXCEPT ![t] =
                 [handling |-> TRUE,
                  Keys |-> (ContextKey("string", "tracekit.request_context")
                              :> extractGinRequestContext(request)),
                  requestCtx |-> (ContextKey("traceContextKeyType", "currentSpan")
                                    :> [span |-> request.Path])]]
    /\ UNCHANGED <<sdk, registry, buffer>>
    /\ UNCHANGED clientVars

\* The handler of the route has returned and the request is over.
GinRequestDone(t) ==
    /\ ~panicked
    /\ pc[t] = "idle"
    /\ gin[t].handling
    /\ gin' = [gin EXCEPT ![t] = NoRequest]
    /\ UNCHANGED <<sdk, registry, buffer>>
    /\ UNCHANGED clientVars

\* A gin server with one request at a time, whose handlers call
\* CheckAndCaptureWithContext(c.Request.Context(), label, vars); the Poller
\* and the tasks; the clock stands still.
NextGin ==
    \/ \E request \in Requests : GinMiddleware("c1", request)
    \/ GinRequestDone("c1")
    \/ \E s \in Sites, lb \in Labels : CCW_Enter("c1", s, lb)
    \/ AR_Check("c1")
    \/ AR_Mark("c1")
    \/ CCW_RLock("c1")
    \/ CCW_Lookup("c1")
    \/ FetchStep(RegisterResponses)
    \/ TaskStep
    \/ Start
    \/ Poller_Tick

SpecGin == Init /\ [][NextGin]_vars

\* ------------------------------------------------------ metricsRegistry
\* The loop of metricKey over the tags in the order ks: k1=v1,k2=v2,...
RECURSIVE JoinTags(_, _, _)
JoinTags(tags, ks, i) ==
    IF i > Len(ks) THEN ""
    ELSE (IF i > 1 THEN "," ELSE "") \o ks[i] \o "=" \o tags[ks[i]]
         \o JoinTags(tags, ks, i + 1)

\* metricKey(name, tags): the keys it can return; `for k, v := range tags`
\* visits the tags in any order.
metricKey(name, tags) ==
    IF DOMAIN tags = {} THEN {name}
    ELSE {name \o "{" \o JoinTags(tags, ks, 1) \o "}" : ks \in KeyOrders(DOMAIN tags)}

\* The tag sets the host uses: nil, one tag, two tags.
TagSets == {EmptyMap, "a" :> "1", ("a" :> "1") @@ ("b" :> "2")}

\* The lookup of goroutine t in the registry mr gives the instance back to
\* its caller.
ReturnInstance(mr, t, instance) ==
    [mr EXCEPT !.inLookup[t] = NoLookup,
               !.returned = @ \cup {[kind |-> mr.inLookup[t].kind,
                                     name |-> mr.inLookup[t].name,
                                     tags |-> mr.inLookup[t].tags,
                                     instance |-> instance]}]

\* counter, gauge or histogram (name, tags), to the first RUnlock: the key,
\* and under the read lock the first look into the map of the kind.  The
\* locked section is one step: it reads and nothing else.
Metric_Lookup(t, kind, name, tags) ==
    /\ registry.inLookup[t].st = "idle"
    /\ registry.lookups < MaxLookups
    /\ \E key \in metricKey(name, tags) :
         LET entered == [registry EXCEPT
                           !.lookups = @ + 1,
                           !.inLookup[t] = [st |-> "missed", kind |-> kind, name |-> name,
                                            tags |-> tags, key |-> key]]
         IN IF key \in DOMAIN registry.metrics[kind]
            THEN registry' = ReturnInstance(entered, t, registry.metrics[kind][key])
            ELSE registry' = entered
    /\ UNCHANGED <<sdk, gin, buffer>>
    /\ UNCHANGED clientVars

\* mr.mu.Lock() to the deferred Unlock: the second look, and the new instance
\* when the key is still absent.  An instance is the number of its creation.
Metric_Create(t) ==
    /\ registry.inLookup[t].st = "missed"
    /\ LET l == registry.inLookup[t]
       IN IF l.key \in DOMAIN registry.metrics[l.kind]
          THEN registry' = ReturnInstance(registry, t, registry.metrics[l.kind][l.key])
          ELSE registry' = [ReturnInstance(registry, t, registry.made + 1) EXCEPT
                              !.made = @ + 1,
                              !.metrics[l.kind] = MapPut(@, l.key, registry.made + 1)]
    /\ UNCHANGED <<sdk, gin, buffer>>
    /\ UNCHANGED clientVars

\* Goroutines of the host in the lookups of the registry.
NextMetrics ==
    \/ \E t \in Threads, kind \in MetricKinds, tags \in TagSets :
         Metric_Lookup(t, kind, "requests", tags)
    \/ \E t \in Threads : Metric_Create(t)

SpecMetrics == Init /\ [][NextMetrics]_vars

\* --------------------------------------------------------- metricsBuffer
\* A flush that hands the data over and leaves it in the buffer.
FlushKeepsData(fl, final) ==
    IF buffer.data = <<>>
    THEN [buf |-> buffer.data,
          fl |-> [fl EXCEPT !.st = IF final THEN "exited" ELSE "done"]]
    ELSE [buf |-> buffer.data,
          fl |-> [st |-> "exporting", dataPoints |-> buffer.data, final |-> final]]

\* flush, from b.mu.Lock() to b.mu.Unlock(), by the goroutine in state fl:
\* nothing to do when the buffer is empty; otherwise dataPoints := b.data and
\* b.data = make(...).  Gives the buffer's data and the goroutine afterwards.
FlushSwap(fl, final) ==
    IF buffer.data = <<>>
    THEN [buf |-> buffer.data,
          fl |-> [fl EXCEPT !.st = IF final THEN "exited" ELSE "done"]]
    ELSE [buf |-> <<>>,
          fl |-> [st |-> "exporting", dataPoints |-> buffer.data, final |-> final]]

\* add: the append under the lock, and `go b.flush()` when the size is reached.
Buffer_Add ==
    /\ ~buffer.panicked
    /\ buffer.added < MaxPoints
    /\ LET data == Append(buffer.data, buffer.added + 1)
           shouldFlush == Len(data) >= MaxSize
       IN buffer' = [buffer EXCEPT
                        !.data = data,
                        !.added = @ + 1,
                        !.flushes = IF shouldFlush
                                    THEN Append(@, [NoFlush EXCEPT !.st = "start"])
                                    ELSE @]
    /\ UNCHANGED <<sdk, gin, registry>>
    /\ UNCHANGED clientVars

\* The locked part of the flush of goroutine g, started by add.
Buffer_Flush(g) ==
    /\ ~buffer.panicked
    /\ g \in 1..Len(buffer.flushes)
    /\ buffer.flushes[g].st = "start"
    /\ LET r == FlushSwap(buffer.flushes[g], FALSE)
       IN buffer' = [buffer EXCEPT !.data = r.buf, !.flushes[g] = r.fl]
    /\ UNCHANGED <<sdk, gin, registry>>
    /\ UNCHANGED clientVars

\* b.exporter.export(dataPoints) of goroutine g; its error is dropped.
Buffer_Export(g) ==
    /\ ~buffer.panicked
    /\ g \in 1..Len(buffer.flushes)
    /\ buffer.flushes[g].st = "exporting"
    /\ buffer' = [buffer EXCEPT
                     !.exported = Append(@, buffer.flushes[g].dataPoints),
                     !.flushes[g] = [NoFlush EXCEPT !.st = "done"]]
    /\ UNCHANGED <<sdk, gin, registry>>
    /\ UNCHANGED clientVars

\* flushLoop: case <-ticker.C: the locked part of b.flush().
Loop_Tick ==
    /\ ~buffer.panicked
    /\ buffer.loop.st = "wait"
    /\ LET r == FlushSwap(buffer.loop, FALSE)
       IN buffer' = [buffer EXCEPT
                        !.data = r.buf,
                        !.loop = IF r.fl.st = "done" THEN NoFlush ELSE r.fl]
    /\ UNCHANGED <<sdk, gin, registry>>
    /\ UNCHANGED clientVars

\* flushLoop: case <-b.stop: the locked part of the final flush.
Loop_Stop ==
    /\ ~buffer.panicked
    /\ buffer.loop.st = "wait"
    /\ buffer.stop = "closed"
    /\ LET r == FlushSwap(buffer.loop, TRUE)
       IN buffer' = [buffer EXCEPT !.data = r.buf, !.loop = r.fl]
    /\ UNCHANGED <<sdk, gin, registry>>
    /\ UNCHANGED clientVars

\* b.exporter.export(dataPoints) of the flushLoop goroutine, which then goes
\* back to its select, or returns after the final flush.
Loop_Export ==
    /\ ~buffer.panicked
    /\ buffer.loop.st = "exporting"
    /\ buffer' = [buffer EXCEPT
                     !.exported = Append(@, buffer.loop.dataPoints),
                     !.loop = [NoFlush EXCEPT
                                 !.st = IF buffer.loop.final THEN "exited" ELSE "wait"]]
    /\ UNCHANGED <<sdk, gin, registry>>
    /\ UNCHANGED clientVars

\* shutdown: close(b.stop); closing a closed channel panics.
Buffer_Shutdown ==
    /\ ~buffer.panicked
    /\ buffer' = IF buffer.stop = "open"
                 THEN [buffer EXCEPT !.stop = "closed"]
                 ELSE [buffer EXCEPT !.panicked = TRUE]
    /\ UNCHANGED <<sdk, gin, registry>>
    /\ UNCHANGED clientVars

\* Goroutines of the host add data points while the buffer flushes.
NextBuffer ==
    \/ Buffer_Add
    \/ \E g \in 1..MaxPoints : Buffer_Flush(g)
    \/ \E g \in 1..MaxPoints : Buffer_Export(g)
    \/ Loop_Tick
    \/ Loop_Stop
    \/ Loop_Export
    \/ Buffer_Shutdown

SpecBuffer == Init /\ [][NextBuffer]_vars

\* ================================================================ claims
\* A Facade invocation dispatches a snapshot: it starts a capture task.
Dispatches == Len(tasks') = Len(tasks) + 1 /\ tasks'[Len(tasks')].kind = "capture"

\* The step in which CheckAndCapture(file, line) runs, and the entry the
\* Registry holds for it.
CCStep(l) == CheckAndCapture(l[1], l[2])
CCEntry(l) == MapGet(breakpointsCache, LineKey(l[1], l[2]))

\* The config the Registry holds for the call site of caller t, label key first.
CtxEntry(t) == Lookup(breakpointsCache, call[t])

\* Caller t holds the read lock and is about to read the Registry.
AtLookup(t) == pc[t] = "lookup" /\ t \in mu.r

IsDisabled(r) == r.exists /\ ~r.bp[1].Enabled
IsExhausted(r) ==
    /\ r.exists
    /\ r.bp[1].MaxCaptures > 0
    /\ r.bp[1].CaptureCount >= r.bp[1].MaxCaptures
IsExpired(r) ==
    /\ r.exists
    /\ r.bp[1].ExpireAt # NilTime
    /\ r.bp[1].ExpireAt < now

\* C1: no invocation of CheckAndCapture or CheckAndCaptureWithContext whose
\* Registry entry has Enabled = false dispatches a snapshot.
C1_DisabledNeverDispatches ==
    [][ /\ \A l \in Locations : (CCStep(l) /\ IsDisabled(CCEntry(l))) => ~Dispatches
        /\ \A t \in Threads :
             (CCW_Lookup(t) /\ IsDisabled(CtxEntry(t))) => ~Dispatches ]_vars

\* C2: no invocation whose Registry entry has MaxCaptures = N > 0 and
\* CaptureCount >= N dispatches a snapshot, for as long as the Registry holds
\* that entry; once a poll has installed a lower count the gate no longer
\* applies.
C2_ExhaustedNeverDispatches ==
    [][ /\ \A l \in Locations : (CCStep(l) /\ IsExhausted(CCEntry(l))) => ~Dispatches
        /\ \A t \in Threads :
             (CCW_Lookup(t) /\ IsExhausted(CtxEntry(t))) => ~Dispatches ]_vars

\* A caller is about to look up a call site whose entry is exhausted, with
\* the read lock held.
C2_Witness == \E t \in Threads : AtLookup(t) /\ IsExhausted(CtxEntry(t))

\* C3: no invocation whose Registry entry has an ExpireAt earlier than now
\* dispatches a snapshot, whether the entry is enabled or not.
C3_ExpiredNeverDispatches ==
    [][ /\ \A l \in Locations : (CCStep(l) /\ IsExpired(CCEntry(l))) => ~Dispatches
        /\ \A t \in Threads :
             (CCW_Lookup(t) /\ IsExpired(CtxEntry(t))) => ~Dispatches ]_vars

\* A caller is about to look up a call site whose entry is enabled, under its
\* capture limit and expired.
C3_Witness ==
    \E t \in Threads :
        /\ AtLookup(t)
        /\ IsExpired(CtxEntry(t))
        /\ CtxEntry(t).bp[1].Enabled
        /\ ~IsExhausted(CtxEntry(t))

\* C4: a CheckAndCapture for a (file, line) whose location key is absent from
\* the Registry returns (no panic) and starts no task, sends no request, and
\* changes neither the Registry nor the dedup cache nor the lock.
C4_MissIsNoOp ==
    [][ \A l \in Locations :
          (CCStep(l) /\ LineKey(l[1], l[2]) \notin DOMAIN breakpointsCache)
              => UNCHANGED <<tasks, gets, fetch, breakpointsCache, registrationCache,
                             mu, ppc, panicked>> ]_vars

\* Only CheckAndCapture has been called (no call site was registered, no
\* caller is inside CheckAndCaptureWithContext), the Registry holds
\* breakpoints, none at a.go:3, and nothing was started.
C4_Witness ==
    /\ ncalls >= 1
    /\ registrationCache = {}
    /\ \A t \in Threads : pc[t] = "idle"
    /\ breakpointsCache # EmptyMap
    /\ LineKey("a.go", 3) \notin DOMAIN breakpointsCache
    /\ tasks = <<>>

\* The auto-register POSTs made so far with dedup key k: every register task
\* starts with its POST.
RegCalls(k) ==
    Cardinality({i \in TaskIds : tasks[i].kind = "register" /\ tasks[i].reg.key = k})
RegCallsNext(k) ==
    Cardinality({i \in 1..Len(tasks') :
                    tasks'[i].kind = "register" /\ tasks'[i].reg.key = k})

\* Caller t has left autoRegisterBreakpoint and is still in the invocation.
PastRegister(t) == pc[t] \in {"rlock", "lookup"}

\* The dedup keys of the model's call sites.
RegKeys == {LabelKey(JoinDots(s.func), AutoLabel(s.func, lb)) : s \in Sites, lb \in Labels}

\* C5: concurrent CheckAndCaptureWithContext calls for one (function, label)
\* issue exactly one auto-register call: never two for a key, and one as soon
\* as any caller has left autoRegisterBreakpoint.
C5_OneRegistrationPerKey ==
    /\ \A k \in RegKeys : RegCalls(k) <= 1
    /\ \A t \in Threads :
         PastRegister(t) => RegCalls(LabelKey(call[t].func, call[t].label)) = 1

\* Both callers are inside CheckAndCaptureWithContext for the same
\* (function, label) at once, both past autoRegisterBreakpoint.
C5_Witness ==
    /\ PastRegister("c1") /\ PastRegister("c2")
    /\ call["c1"].func = call["c2"].func
    /\ call["c1"].label = call["c2"].label

\* C6: a marked dedup key stays marked, and no auto-register call is issued
\* for a key that is marked, whatever became of the first call.
C6_MarkedForGood ==
    [][ \A k \in registrationCache :
          k \in registrationCache' /\ RegCallsNext(k) = RegCalls(k) ]_vars

\* The registration of a key has failed, and a later invocation for that key
\* holds the lock and is about to consult the dedup cache.
C6_Witness ==
    \E t \in Threads, i \in TaskIds :
        /\ tasks[i].kind = "register" /\ tasks[i].st = "failed"
        /\ pc[t] = "ar_check"
        /\ tasks[i].reg.key = LabelKey(call[t].func, call[t].label)

\* C7 as claimed: an invocation without a label marks the key
\* FilePath:LineNumber, and has an auto-register call of its own for its line.
C7_UnlabelledKeyedByLocation ==
    \A t \in Threads :
        (PastRegister(t) /\ call[t].arg = "")
            => /\ LineKey(call[t].file, call[t].line) \in registrationCache
               /\ \E i \in TaskIds :
                    /\ tasks[i].kind = "register"
                    /\ tasks[i].reg.file = call[t].file
                    /\ tasks[i].reg.line = call[t].line

\* C7 as amended: the dedup key is always FunctionName:Label, where an empty
\* label argument is replaced by the last dot-separated part of the function
\* name; the marked keys are the keys of the auto-register calls made, one
\* call per key, so unlabelled call sites of one function share one call.
C7_KeyedByFunctionAndLabel ==
    /\ \A t \in Threads :
         PastRegister(t) =>
            /\ call[t].func \o ":" \o call[t].label \in registrationCache
            /\ call[t].arg = "" => call[t].label \notin Labels
    /\ registrationCache =
          {tasks[i].reg.func \o ":" \o tasks[i].reg.label :
              i \in {j \in TaskIds : tasks[j].kind = "register"}}
    /\ Cardinality({i \in TaskIds : tasks[i].kind = "register"})
          = Cardinality(registrationCache)

\* Two unlabelled invocations at different lines of one function are both past
\* autoRegisterBreakpoint, and one auto-register call was made.
C7_Witness ==
    /\ PastRegister("c1") /\ PastRegister("c2")
    /\ call["c1"].arg = "" /\ call["c2"].arg = ""
    /\ call["c1"].func = call["c2"].func
    /\ call["c1"].line # call["c2"].line
    /\ Cardinality({i \in TaskIds : tasks[i].kind = "register"}) = 1

\* The keys a list of breakpoints gives rise to.
Range(seq) == {seq[i] : i \in 1..Len(seq)}
KeysOf(breakpoints) ==
    {c.FilePath \o ":" \o ToString(c.LineNumber) : c \in Range(breakpoints)}
    \cup {c.FunctionName \o ":" \o c.Label :
            c \in {d \in Range(breakpoints) : d.Label # "" /\ d.FunctionName # ""}}

\* The maps a complete replacement can leave in the Registry.
WholeMaps == {EmptyMap} \cup {InsertAll(r, 1, EmptyMap) : r \in Responses}

\* The fetchers that have stored their map and not yet released the lock.
Storing == {f \in FetcherIds : fetch[f].st = "swapped"}

\* C8: the Registry always holds the whole map of one response, and a lookup
\* made while a replacement is under way finds what the previous map or the
\* new map holds for its key.
C8_LookupSeesOneWholeMap ==
    /\ breakpointsCache \in WholeMaps
    /\ \A l \in Locations :
         RacyGet(LineKey(l[1], l[2])) \subseteq
            {MapGet(breakpointsCache, LineKey(l[1], l[2]))}
            \cup {MapGet(fetch[f].old, LineKey(l[1], l[2])) : f \in Storing}
    /\ \A t \in Threads :
         AtLookup(t) => CtxEntry(t) \in {Lookup(m, call[t]) : m \in WholeMaps}

\* C9: when a poll has stored its map, the Registry holds exactly the keys of
\* that response, each with a config of that response: a config that is not
\* in the response is under no key, and an empty response leaves no key.
C9_RegistryReflectsLastPoll ==
    \A f \in Storing :
        /\ DOMAIN breakpointsCache = KeysOf(fetch[f].resp)
        /\ \A k \in DOMAIN breakpointsCache : breakpointsCache[k] \in Range(fetch[f].resp)
        /\ fetch[f].resp = <<>> => breakpointsCache = EmptyMap

\* A poll has replaced a Registry that held breakpoints with a response that
\* lists none of them.
C9_Witness ==
    \E f \in Storing :
        /\ fetch[f].old # EmptyMap
        /\ \A k \in DOMAIN fetch[f].old : fetch[f].old[k] \notin Range(fetch[f].resp)

\* C10: a fetch that fails leaves the Registry as it was and sends no further
\* request; the Poller is back at its select, and sends a GET only at startup
\* or for a tick.
C10_FailedPollChangesNothing ==
    [][ /\ \A f \in FetcherIds :
             (\E k \in {"transport", "status", "decode"} : Fetch_Error(f, k))
                => /\ breakpointsCache' = breakpointsCache
                   /\ gets' = gets
                   /\ fetch'[f].st = "idle"
                   /\ f = 0 => ppc' = "wait"
        /\ (gets' > gets /\ fetch'[0].st = "inflight" /\ fetch[0].st = "idle")
             => (Start \/ Poller_Tick) ]_vars

\* A poll is in flight while the Registry holds breakpoints.
C10_Witness == fetch[0].st = "inflight" /\ breakpointsCache # EmptyMap

\* C11: every Registry read of the Facade is made under the read lock, and
\* every replacement under the write lock: a read is never made while a writer
\* holds the lock, a reader in CheckAndCaptureWithContext is a read-lock
\* holder, and the fetcher that stores a map is the write-lock holder.
C11_RegistryAccessUnderLock ==
    [][ /\ \A l \in Locations : CCStep(l) => mu.w = None
        /\ \A t \in Threads : CCW_Lookup(t) => (t \in mu.r /\ mu.w = None)
        /\ \A f \in FetcherIds :
             breakpointsCache' # breakpointsCache => mu'.w # None ]_vars

\* The HTTP calls in flight: the fetchers whose GET is out, the register tasks
\* whose POST is out, the capture tasks about to POST.
CallsInFlight ==
    {Holder(f) : f \in {g \in FetcherIds : fetch[g].st = "inflight"}}
    \cup {"t" \o ToString(i) :
            i \in {j \in TaskIds : tasks[j].st \in {"posting", "start"}}}

\* The goroutines that hold c.mu.
LockHolders == (IF mu.w = None THEN {} ELSE {mu.w}) \cup mu.r

\* C12: no lock is held across network I/O: a goroutine with an HTTP call in
\* flight holds neither lock, the holders of the lock are Facade callers
\* between Lock and Unlock and fetchers between the store and the Unlock, and
\* a fetcher outside updateBreakpointCache holds nothing.
C12_NoLockAcrossIO ==
    /\ CallsInFlight \cap LockHolders = {}
    /\ \A f \in FetcherIds : Holder(f) \in LockHolders => fetch[f].st = "swapped"
    /\ \A t \in Threads :
         t \in LockHolders => pc[t] \in {"ar_check", "ar_mark", "lookup"}

\* A GET and a POST are in flight while a Facade caller holds the lock.
C12_Witness ==
    /\ \E f \in FetcherIds : fetch[f].st = "inflight"
    /\ \E i \in TaskIds : tasks[i].st = "posting"
    /\ \E t \in Threads : t \in LockHolders

\* A config that passes every gate at the current time.
Capturable(c) ==
    /\ c.Enabled
    /\ ~(c.ExpireAt # NilTime /\ now > c.ExpireAt)
    /\ ~(c.MaxCaptures > 0 /\ c.CaptureCount >= c.MaxCaptures)

\* The step dispatches a snapshot exactly when c passes the gates, and the
\* snapshot is c's.
GatesAndCaptures(c) ==
    /\ Dispatches <=> Capturable(c)
    /\ Dispatches => tasks'[Len(tasks')].snapshot.BreakpointID = c.ID

\* The label key and the location key of caller t's invocation.
CallLabelKey(t) == call[t].func \o ":" \o call[t].label
CallLineKey(t) == call[t].file \o ":" \o ToString(call[t].line)

\* C13: the lookup of CheckAndCaptureWithContext gates and captures the
\* config under the label key when that key is present, also when the location
\* key is present too; the config under the location key when only that key is
\* present; nothing when neither is.
C13_LabelKeyFirst ==
    [][ \A t \in Threads :
          CCW_Lookup(t) =>
             IF CallLabelKey(t) \in DOMAIN breakpointsCache
             THEN GatesAndCaptures(breakpointsCache[CallLabelKey(t)])
             ELSE IF CallLineKey(t) \in DOMAIN breakpointsCache
             THEN GatesAndCaptures(breakpointsCache[CallLineKey(t)])
             ELSE ~Dispatches ]_vars

\* A caller is at its lookup while the Registry holds one config under its
\* label key and another under its location key.
C13_Witness ==
    \E t \in Threads :
        /\ AtLookup(t)
        /\ CallLabelKey(t) \in DOMAIN breakpointsCache
        /\ CallLineKey(t) \in DOMAIN breakpointsCache
        /\ breakpointsCache[CallLabelKey(t)] # breakpointsCache[CallLineKey(t)]

\* The keys of one config.
HasLabelKey(c) == c.Label # "" /\ c.FunctionName # ""
LabelKeyOf(c) == c.FunctionName \o ":" \o c.Label
LineKeyOf(c) == c.FilePath \o ":" \o ToString(c.LineNumber)
KeysOfConfig(c) == {LineKeyOf(c)} \cup (IF HasLabelKey(c) THEN {LabelKeyOf(c)} ELSE {})

\* The keys under which config c is found in the Registry.
FoundUnder(c) == {k \in DOMAIN breakpointsCache : breakpointsCache[k] = c}

\* C14 as claimed: after a replacement every polled config with a label and a
\* function name is found under its label key and under its location key,
\* every config without a label under its location key only, and the Registry
\* has no key that is not derived from a config of the poll.
C14_EveryConfigUnderItsKeys ==
    \A f \in Storing :
        /\ \A c \in Range(fetch[f].resp) :
             IF HasLabelKey(c)
             THEN {LabelKeyOf(c), LineKeyOf(c)} \subseteq FoundUnder(c)
             ELSE FoundUnder(c) = {LineKeyOf(c)}
        /\ DOMAIN breakpointsCache \subseteq KeysOf(fetch[f].resp)

\* The last config of the response that has key k.
LastWith(breakpoints, k) ==
    LET last == CHOOSE i \in 1..Len(breakpoints) :
                    /\ k \in KeysOfConfig(breakpoints[i])
                    /\ \A j \in (i + 1)..Len(breakpoints) :
                         k \notin KeysOfConfig(breakpoints[j])
    IN breakpoints[last]

\* C14 as amended: after a replacement the keys of the Registry are the label
\* keys of the polled configs that have a label and a function name and the
\* location keys of all polled configs; under each key is the last config of
\* the response with that key, so a config is found under a key of its own
\* unless a later config of the same response has the same key.
C14_LastConfigUnderEachKey ==
    \A f \in Storing :
        /\ DOMAIN breakpointsCache
             = UNION {KeysOfConfig(c) : c \in Range(fetch[f].resp)}
        /\ \A k \in DOMAIN breakpointsCache :
             breakpointsCache[k] = LastWith(fetch[f].resp, k)
        /\ \A c \in Range(fetch[f].resp) : FoundUnder(c) \subseteq KeysOfConfig(c)

\* A response with two configs at one location has been stored: the first is
\* found under its label key only.
C14_Witness ==
    \E f \in Storing :
        \E c \in Range(fetch[f].resp) :
            /\ HasLabelKey(c)
            /\ FoundUnder(c) = {LabelKeyOf(c)}

\* The Poller's GET goes out in this step.
PollerFetches == fetch[0].st # "inflight" /\ fetch'[0].st = "inflight"

\* C15: the Poller leaves its starting point only by the fetch on startup,
\* which comes before any fetch for a tick; every later fetch of the Poller is
\* for a tick received at its select, after the previous fetch has returned,
\* and each tick received sends one GET.
C15_FetchAtStartThenPerTick ==
    [][ /\ ppc = "new" => (ppc' = "new" \/ (PollerFetches /\ gets' = gets + 1))
        /\ (PollerFetches /\ ppc # "new")
             => (ppc = "wait" /\ fetch[0].st = "idle" /\ gets' = gets + 1)
        /\ Poller_Tick => (PollerFetches /\ gets' = gets + 1 /\ ppc' = "fetching")
        /\ ppc' = "wait" => ppc \in {"wait", "fetching"} ]_vars

\* The startup fetch has returned and the fetch for a tick is in flight; the
\* client is not stopped.
C15_Witness ==
    /\ ppc = "fetching" /\ fetch[0].st = "inflight"
    /\ gets = 2
    /\ stopChan = "open"

\* C16: once the stop signal is raised, a Poller at its select starts no
\* further fetch: it stays at the select until it exits.
C16_NoFetchAfterStop ==
    [][ (stopChan = "closed" /\ ppc = "wait")
            => (~PollerFetches /\ ppc' \in {"wait", "exited"}) ]_vars

\* C17: a failed poll sends the Poller back to its select and raises nothing
\* to the host; at its select the Poller can always fetch for the next tick;
\* a fetch that succeeds replaces the Registry with its result.
C17_FailedPollIsNotFatal ==
    /\ [](( ppc = "wait" /\ gets < MaxFetches /\ ~panicked) => ENABLED Poller_Tick)
    /\ [][ /\ (\E k \in {"transport", "status", "decode"} : Fetch_Error(0, k))
               => (ppc' = "wait" /\ panicked' = panicked /\ stopChan' = stopChan)
           /\ \A r \in Responses :
                Fetch_Response(0, r)
                   => /\ DOMAIN breakpointsCache' = KeysOf(r)
                      /\ \A k \in KeysOf(r) : breakpointsCache'[k] \in Range(r) ]_vars

\* The first poll failed (every response lists a breakpoint, and the Registry
\* was still empty when the second poll stored its map), and the poll for the
\* next tick has succeeded and replaced the Registry.
C17_Witness ==
    /\ gets = 2
    /\ fetch[0].st = "swapped"
    /\ fetch[0].old = EmptyMap
    /\ breakpointsCache # EmptyMap

\* Register task i's out-of-band GET goes out in this step.
RefreshStarts(i) == fetch[i].st = "idle" /\ fetch'[i].st = "inflight"

\* C18: a register task sends its out-of-band GET when its POST is answered
\* with 200 or 201, and only then: a POST that ends otherwise leaves the
\* client as it was; the GET of a task goes out once, from the task whose POST
\* was in flight, and never again for that task.
C18_RefreshIffRegistered ==
    [][ /\ \A i \in TaskIds, o \in HttpOutcomes :
             /\ Register_Refresh(i, o)
                  => (o \in {200, 201} /\ RefreshStarts(i) /\ gets' = gets + 1)
             /\ Register_Failed(i, o)
                  => /\ o \notin {200, 201}
                     /\ UNCHANGED <<breakpointsCache, registrationCache, mu, stopChan,
                                    ppc, fetch, pc, call, gets, panicked>>
        /\ \A i \in 1..MaxTasks :
             RefreshStarts(i)
                => /\ i \in TaskIds
                   /\ tasks[i].kind = "register" /\ tasks[i].st = "posting"
                   /\ tasks'[i].st = "refresh"
                   /\ \A j \in (1..MaxTasks) \ {i} : fetch'[j] = fetch[j] ]_vars

\* One registration was answered with 200 or 201 and its refresh is in flight;
\* another has failed.
C18_Witness ==
    /\ \E i \in TaskIds : tasks[i].st = "refresh" /\ fetch[i].st = "inflight"
    /\ \E j \in TaskIds : tasks[j].st = "failed" /\ fetch[j].st = "idle"

\* A poll stores its map in this step.
PollSucceeds == \E f \in FetcherIds : Fetch_Response(f, BackendLists)

\* C19: with a backend that lists the breakpoint of every registration it has
\* answered, enabled, unexpired and without limit, and with polls that succeed
\* again and again, a registration that has succeeded leads to a Registry that
\* holds its breakpoint under the registration's key; and an invocation whose
\* label key is in the Registry dispatches a snapshot.
C19_RegisteredEventuallyCaptures ==
    /\ ([]<><<PollSucceeds>>_vars)
         => \A i \in 1..MaxTasks :
               (i \in TaskIds /\ Registered(tasks[i]))
                  ~> (/\ i \in TaskIds
                      /\ tasks[i].reg.key \in DOMAIN breakpointsCache
                      /\ breakpointsCache[tasks[i].reg.key].ID = "r:" \o tasks[i].reg.key)
    /\ [][ \A t \in Threads :
             (CCW_Lookup(t) /\ CallLabelKey(t) \in DOMAIN breakpointsCache)
                => (Dispatches /\ tasks'[Len(tasks')].snapshot.BreakpointID
                                     = "r:" \o CallLabelKey(t)) ]_vars

\* The registration of a call site has succeeded, the Registry holds its
\* breakpoint, and a later invocation at that call site is at its lookup.
C19_Witness ==
    \E t \in Threads, i \in TaskIds :
        /\ Registered(tasks[i])
        /\ AtLookup(t)
        /\ tasks[i].reg.key = CallLabelKey(t)
        /\ tasks[i].reg.file = call[t].file /\ tasks[i].reg.line = call[t].line
        /\ CallLabelKey(t) \in DOMAIN breakpointsCache

\* C20: every HTTP call a background task makes ends, with a response or with
\* a timeout error: a GET in flight ends, a capture task ends, and the POST of
\* a register task ends.
C20_EveryCallEnds ==
    /\ \A f \in FetcherIds : (fetch[f].st = "inflight") ~> (fetch[f].st # "inflight")
    /\ \A i \in 1..MaxTasks :
         (i \in TaskIds /\ tasks[i].st \in {"posting", "start"})
            ~> (i \in TaskIds /\ tasks[i].st \notin {"posting", "start"})

\* The capture tasks that have not run yet.
PendingCaptures == {i \in TaskIds : tasks[i].kind = "capture" /\ tasks[i].st = "start"}
PendingCapturesNext ==
    {i \in 1..Len(tasks') : tasks'[i].kind = "capture" /\ tasks'[i].st = "start"}

\* C21: a Facade invocation that passes the gates starts one capture task and
\* has returned before that task runs; a capture task runs once, whatever the
\* outcome of its POST: it ends, starts no other task, and leaves the Registry,
\* the dedup cache and the lock as they were; a task that has ended stays so.
C21_OneDispatchNoRetry ==
    [][ /\ ( \/ \E l \in Locations : CCStep(l)
             \/ \E t \in Threads : CCW_Lookup(t) )
           => /\ Len(tasks') \in {Len(tasks), Len(tasks) + 1}
              /\ Dispatches => tasks'[Len(tasks')].st = "start"
              /\ \A t \in Threads : CCW_Lookup(t) => pc'[t] = "idle"
        /\ \A i \in TaskIds, o \in HttpOutcomes :
             Capture_Run(i, o)
                => /\ Len(tasks') = Len(tasks)
                   /\ PendingCapturesNext = PendingCaptures \ {i}
                   /\ UNCHANGED <<breakpointsCache, registrationCache, mu, fetch,
                                  gets, ppc, panicked>>
        /\ \A i \in TaskIds :
             (tasks[i].kind = "capture" /\ tasks[i].st = "done")
                => tasks'[i] = tasks[i] ]_vars

\* One capture has run and ended, another is still to run, and the Registry
\* holds breakpoints.
C21_Witness ==
    /\ PendingCaptures # {}
    /\ \E i \in TaskIds : tasks[i].kind = "capture" /\ tasks[i].st = "done"
    /\ breakpointsCache # EmptyMap

\* The register tasks whose POST is in flight.
PendingPosts == {i \in TaskIds : tasks[i].kind = "register" /\ tasks[i].st = "posting"}

\* C22: Stop closes the stop channel and nothing else: it can be called
\* whatever the background tasks are doing, it changes no task, no fetch in
\* flight and no lock, and after it a capture task that was started can still
\* run and a registration POST in flight can still end.
C22_StopCancelsNothing ==
    /\ [](~panicked => ENABLED Stop)
    /\ []((stopChan = "closed" /\ ~panicked)
            => /\ \A i \in PendingCaptures : ENABLED Capture_Run(i, StatusOK)
               /\ \A i \in PendingPosts : ENABLED Register_Failed(i, TransportError))
    /\ [][ Stop => UNCHANGED <<tasks, fetch, mu, breakpointsCache, registrationCache,
                               ppc, pc, call, gets>> ]_vars

\* The client is stopped while a capture task has yet to run and a
\* registration POST is in flight.
C22_Witness ==
    /\ stopChan = "closed" /\ ~panicked
    /\ PendingCaptures # {}
    /\ PendingPosts # {}

\* C24: an invocation of CheckAndCaptureWithContext goes through
\* autoRegisterBreakpoint before anything else, and reaches its Registry
\* lookup only from there: at the lookup its key is marked and an auto-register
\* call for the key has been made, whatever the Registry holds.
C24_RegistersBeforeLookup ==
    /\ [](\A t \in Threads :
            PastRegister(t)
               => /\ CallLabelKey(t) \in registrationCache
                  /\ \E i \in TaskIds :
                       tasks[i].kind = "register" /\ tasks[i].reg.key = CallLabelKey(t))
    /\ [][ \A t \in Threads :
             /\ (pc[t] = "idle" /\ pc'[t] # "idle") => pc'[t] = "ar_check"
             /\ (pc[t] # "lookup" /\ pc'[t] = "lookup") => pc[t] = "rlock"
             /\ (pc[t] # "rlock" /\ pc'[t] = "rlock") => pc[t] \in {"ar_check", "ar_mark"}
       ]_vars

\* An invocation at an unseen call site has returned with the Registry empty:
\* nothing was captured, and the call site is registered.
C24_Witness ==
    /\ \A t \in Threads : pc[t] = "idle"
    /\ breakpointsCache = EmptyMap
    /\ \A i \in TaskIds : tasks[i].kind = "register"
    /\ registrationCache # {}
    /\ gets = 0

InputOf(i) == tasks[i].variables
SanitizedOf(i) == tasks[i].snapshot.Variables
FlagsOf(i) == tasks[i].snapshot.SecurityFlags
FlagsFor(i, name) == {k \in 1..Len(FlagsOf(i)) : FlagsOf(i)[k].Variable = name}

\* A name that holds one of the five words, in any case, written without the
\* scanner: some stretch of the name, put in lower case letter by letter, is
\* the word.
NameHoldsWord(name) ==
    \E a \in 1..Len(name), b \in 1..Len(name) :
        /\ a <= b
        /\ [k \in 1..(b - a + 1) |-> ToLowerChar(At(name, a + k - 1))]
             \in {[k \in 1..Len(w) |-> At(w, k)] :
                    w \in {"password", "secret", "token", "key", "credential"}}

\* C25: every variable whose name holds password, secret, token, key or
\* credential, in any case, is replaced by "[REDACTED]" in the snapshot and
\* gets exactly one flag, of type sensitive_variable_name and severity medium;
\* its value plays no part, be it plain, matching or unserializable.
C25_SensitiveNameRedacted ==
    \A i \in PendingCaptures : \A name \in DOMAIN InputOf(i) :
        NameHoldsWord(name) =>
            /\ SanitizedOf(i)[name] = Redacted
            /\ Cardinality(FlagsFor(i, name)) = 1
            /\ \A k \in FlagsFor(i, name) :
                 FlagsOf(i)[k] = SecurityFlag("sensitive_variable_name", "medium", name)

C25_Witness ==
    \E i \in PendingCaptures :
        /\ "apiKey" \in DOMAIN InputOf(i)
        /\ InputOf(i)["apiKey"] = ChanValue
        /\ SanitizedOf(i)["apiKey"] = Redacted

FlagTypes(i, name) == {FlagsOf(i)[k].Type : k \in FlagsFor(i, name)}

\* C27: the scan is deterministic: two invocations with the same variables
\* map dispatch snapshots with the same sanitized variables and, for every
\* variable, the same flag type.
C27_ScanDeterministic ==
    \A i \in PendingCaptures, j \in PendingCaptures :
        InputOf(i) = InputOf(j) =>
            /\ SanitizedOf(i) = SanitizedOf(j)
            /\ \A name \in DOMAIN InputOf(i) : FlagTypes(i, name) = FlagTypes(j, name)

\* C26: a variable with a name that is not sensitive and a serializable value
\* that matches the JWT pattern is replaced by "[REDACTED]" and gets exactly
\* one flag, of type sensitive_data_jwt and severity high, whatever other
\* value pattern its value matches.
C26_JwtFlagged ==
    \A i \in PendingCaptures : \A name \in DOMAIN InputOf(i) :
        (/\ ~NameHoldsWord(name)
         /\ Marshal(InputOf(i)[name]).ok
         /\ MatchJWT(Marshal(InputOf(i)[name]).bytes)) =>
            /\ SanitizedOf(i)[name] = Redacted
            /\ Cardinality(FlagsFor(i, name)) = 1
            /\ \A k \in FlagsFor(i, name) :
                 FlagsOf(i)[k] = SecurityFlag("sensitive_data_jwt", "high", name)

\* C28: in every scan result each variable carries at most one flag, and a
\* variable with a sensitive name carries the name flag; a flagged variable
\* holds "[REDACTED]" and a variable without a flag holds its own value or
\* its type tag, never a replacement by "[REDACTED]"; every flag names a
\* variable of the input, so that there are at most as many flags as input
\* variables.
C28_OneFlagPerVariable ==
    \A i \in PendingCaptures :
        /\ \A name \in DOMAIN InputOf(i) :
             /\ Cardinality(FlagsFor(i, name)) <= 1
             /\ NameHoldsWord(name) => FlagTypes(i, name) = {"sensitive_variable_name"}
             /\ FlagsFor(i, name) # {} => SanitizedOf(i)[name] = Redacted
             /\ FlagsFor(i, name) = {} =>
                  SanitizedOf(i)[name] \in {InputOf(i)[name], TypeTag(InputOf(i)[name])}
        /\ \A k \in 1..Len(FlagsOf(i)) : FlagsOf(i)[k].Variable \in DOMAIN InputOf(i)
        /\ Len(FlagsOf(i)) <= Cardinality(DOMAIN InputOf(i))

C28_Witness ==
    \E i \in PendingCaptures :
        /\ DOMAIN InputOf(i) = {"amount", "apiKey"}
        /\ Len(FlagsOf(i)) = 1
        /\ SanitizedOf(i)["amount"] = IntValue(10)

\* The flags of the pending capture i for one variable, in their order.
FlagSeqFor(i, name) == SelectSeq(FlagsOf(i), LAMBDA f : f.Variable = name)

\* C29: the sanitized map has exactly the keys of the input map; a variable
\* with a name that is not sensitive and a value that cannot be serialized
\* holds the type tag of its value and has no flag; and in a map with such a
\* variable every variable is scanned as it is alone, in a snapshot that is
\* dispatched.
C29_PlaceholderKept ==
    \A i \in PendingCaptures :
        /\ DOMAIN SanitizedOf(i) = DOMAIN InputOf(i)
        /\ \A name \in DOMAIN InputOf(i) :
             /\ (InputOf(i)[name].kind = "chan" /\ ~NameHoldsWord(name)) =>
                  /\ SanitizedOf(i)[name] = StringValue("[chan int]")
                  /\ FlagsFor(i, name) = {}
             /\ [value |-> SanitizedOf(i)[name], flags |-> FlagSeqFor(i, name)]
                  \in ScanVariable(name, InputOf(i)[name])

C29_Witness ==
    \E i \in PendingCaptures :
        /\ DOMAIN InputOf(i) = {"amount", "x"}
        /\ InputOf(i)["amount"] = ChanValue
        /\ SanitizedOf(i)["amount"] = StringValue("[chan int]")
        /\ SanitizedOf(i)["x"] = Redacted

\* C29 as stated: every variable whose value cannot be serialized holds the
\* type tag and has no flag, whatever its name.
C29_Original ==
    \A i \in PendingCaptures : \A name \in DOMAIN InputOf(i) :
        InputOf(i)[name].kind = "chan" =>
            /\ SanitizedOf(i)[name] = StringValue("[chan int]")
            /\ FlagsFor(i, name) = {}

\* Variables that the scan leaves alone: no sensitive name, every value
\* serializable and matching no value pattern.
PlainVars(v) ==
    \A name \in DOMAIN v :
        /\ ~NameHoldsWord(name)
        /\ Marshal(v[name]).ok
        /\ \A t \in PatternNames : ~Matches(t, Marshal(v[name]).bytes)

PlainMaps == {v \in VarMaps : PlainVars(v)}

\* A successful poll has installed the enabled, unexpired config b1, with
\* MaxCaptures = 0, for a.go:1: the Registry holds it, and a store that is in
\* progress replaces a Registry that held it already.
InstalledActive ==
    /\ MapGet(breakpointsCache, LineKey("a.go", 1)) = Found(BpActive)
    /\ \A f \in FetcherIds :
         fetch[f].st = "swapped" => MapGet(fetch[f].old, LineKey("a.go", 1)) = Found(BpActive)

\* C30: once a successful poll has installed an enabled, unexpired config
\* with MaxCaptures = 0 for a.go:1, every CheckAndCapture("a.go", 1, vars) with
\* non-sensitive vars dispatches exactly one snapshot, with the ID of that
\* config, Variables equal to vars and no flags.
C30_InstalledConfigCaptures ==
    [][\A v \in PlainMaps :
         (InstalledActive /\ CheckAndCaptureVars("a.go", 1, v)) =>
            /\ Len(tasks') = Len(tasks) + 1
            /\ tasks'[Len(tasks')].snapshot.BreakpointID = BpActive.ID
            /\ tasks'[Len(tasks')].snapshot.Variables = v
            /\ tasks'[Len(tasks')].snapshot.SecurityFlags = <<>>]_vars

\* The seconds, up to now, at which a Poller with the configured interval
\* fetches: at its start and at every multiple of the interval.
ConfiguredPolls ==
    [k \in 1..(1 + sdk.elapsed \div sdk.CodeMonitoringPollInterval) |->
        (k - 1) * sdk.CodeMonitoringPollInterval]

\* C31: the Poller of a client created by NewSDK polls at the configured
\* CodeMonitoringPollInterval, 30 seconds when the Config leaves it unset.
C31_PollsAtConfiguredInterval ==
    (sdk.built /\ sdk.polling) =>
        /\ sdk.CodeMonitoringPollInterval \in {10, 30, 60}
        /\ sdk.polls = ConfiguredPolls

\* An endpoint with a scheme and, the trailing slash apart, a path after its
\* host.
HasSchemeAndPath(endpoint) ==
    \E scheme \in {"http://", "https://"} :
        /\ HasPrefix(endpoint, scheme)
        /\ Contains(TrimPrefix(TrimSuffix(endpoint, "/"), scheme), "/")

\* C32: for an endpoint with a scheme and a path after the host,
\* resolveEndpoint with a non-empty path returns the endpoint without its
\* trailing slash, whatever the path and useSSL are.
C32_EndpointWithPathUnchanged ==
    (sdk.built /\ HasSchemeAndPath(sdk.Endpoint)) =>
        /\ sdk.tracesEndpoint = TrimSuffix(sdk.Endpoint, "/")
        /\ sdk.metricsEndpoint = TrimSuffix(sdk.Endpoint, "/")

\* C33: the scan is pure: the map handed to CheckAndCapture is, after the
\* call, the map it was before, and every variable that has no sensitive
\* name, is serializable and matches no value pattern is in the sanitized map
\* with its own value.
C33_ScanPure ==
    /\ [](\A i \in PendingCaptures : \A name \in DOMAIN InputOf(i) :
            (/\ ~NameHoldsWord(name)
             /\ Marshal(InputOf(i)[name]).ok
             /\ \A t \in PatternNames : ~Matches(t, Marshal(InputOf(i)[name]).bytes)) =>
                SanitizedOf(i)[name] = InputOf(i)[name])
    /\ [][\A l \in Locations, v \in VarMaps :
            (CheckAndCaptureVars(l[1], l[2], v) /\ Len(tasks') > Len(tasks)) =>
                tasks'[Len(tasks')].variables = v]_vars

C33_Witness ==
    \E i \in PendingCaptures :
        /\ InputOf(i) = ("amount" :> IntValue(10)) @@ ("apiKey" :> StringValue("eyJh.eyJz.sig"))
        /\ SanitizedOf(i)["amount"] = IntValue(10)
        /\ SanitizedOf(i)["apiKey"] = Redacted

\* C34: when GinMiddleware handles a request and the handler's
\* CheckAndCaptureWithContext, called with the request's context, dispatches a
\* snapshot, the snapshot's RequestContext is the map that the middleware
\* extracted for that request and stored in the gin.Context.
C34_SnapshotCarriesRequestContext ==
    [][(gin["c1"].handling /\ CCW_Lookup("c1") /\ Len(tasks') = Len(tasks) + 1) =>
          tasks'[Len(tasks')].snapshot.RequestContext
            = gin["c1"].Keys[ContextKey("string", "tracekit.request_context")]]_vars

\* C35: all lookups of one kind with one name and one tag set return the same
\* instance.
C35_OneInstancePerMetric ==
    \A a \in registry.returned, b \in registry.returned :
        (a.kind = b.kind /\ a.name = b.name /\ a.tags = b.tags) => a.instance = b.instance

\* C36: the client never changes a cached config: a Facade invocation and a
\* capture task leave the Registry as it is, so that a config with
\* MaxCaptures = 1 and a polled CaptureCount of 0 lets every invocation that
\* finds it dispatch, outside the stores of the polls.
C36_CaptureCountNeverAdvanced ==
    /\ [][((\E l \in Locations : CCStep(l)) \/ CCW_Lookup("c1")
            \/ (\E i \in TaskIds, o \in HttpOutcomes : Capture_Run(i, o)))
          => breakpointsCache' = breakpointsCache]_vars
    /\ [][(CCW_Lookup("c1") /\ CtxEntry("c1") = Found(BpUnderLimit)) => Dispatches]_vars
    /\ [][\A l \in Locations :
            (CCStep(l) /\ ~StoreInProgress /\ CCEntry(l) = Found(BpUnderLimit))
                => Dispatches]_vars

\* After the one poll so far, two snapshots of the config with MaxCaptures = 1
\* are on their way.
C36_Witness ==
    /\ gets = 1
    /\ BpUnderLimit.MaxCaptures = 1
    /\ \E i \in PendingCaptures, j \in PendingCaptures :
         /\ i # j
         /\ tasks[i].snapshot.BreakpointID = BpUnderLimit.ID
         /\ tasks[j].snapshot.BreakpointID = BpUnderLimit.ID

\* C37: the fallback to the location key happens only when the label key is
\* absent: a lookup that finds a disabled, expired or exhausted config under
\* the label key dispatches nothing, whatever is under the location key, and a
\* lookup that dispatches while the label key is present took the config of
\* the label key.
C37_NoFallbackWhenGated ==
    [][ \A t \in Threads :
          (CCW_Lookup(t) /\ CallLabelKey(t) \in DOMAIN breakpointsCache) =>
             /\ ~Capturable(breakpointsCache[CallLabelKey(t)]) => ~Dispatches
             /\ Dispatches =>
                  tasks'[Len(tasks')].snapshot.BreakpointID
                      = breakpointsCache[CallLabelKey(t)].ID ]_vars

\* A caller is at its lookup while the config under its label key fails a gate
\* and a different config, which passes them all, is under its location key.
C37_Witness ==
    \E t \in Threads :
        /\ AtLookup(t)
        /\ CallLabelKey(t) \in DOMAIN breakpointsCache
        /\ CallLineKey(t) \in DOMAIN breakpointsCache
        /\ ~Capturable(breakpointsCache[CallLabelKey(t)])
        /\ Capturable(breakpointsCache[CallLineKey(t)])
        /\ breakpointsCache[CallLabelKey(t)].ID # breakpointsCache[CallLineKey(t)].ID

\* The keys a response body gives the Registry.
KeysOfBody(body) == UNION {KeysOfConfig(body[j]) : j \in 1..Len(body)}

\* C38: fetches are not serialised (a store happens while another fetch is in
\* progress, see the witness), and each store installs exactly the body its
\* own GET was answered with, whatever the Registry held and whatever the
\* backend lists by then: the Registry is that of the response stored last.
C38_LastInstalledWins ==
    [][ \A f \in FetcherIds :
          Fetch_Decoded(f) =>
             /\ DOMAIN breakpointsCache' = KeysOfBody(fetch[f].resp)
             /\ \A k \in DOMAIN breakpointsCache' :
                  \E j \in 1..Len(fetch[f].resp) :
                     /\ breakpointsCache'[k] = fetch[f].resp[j]
                     /\ k \in KeysOfConfig(fetch[f].resp[j]) ]_vars

\* The Poller's GET was answered before a registration, the refresh of that
\* registration has stored the breakpoint the backend created, and the Poller
\* now stores its older body over it: the Registry no longer holds a
\* breakpoint the backend lists, and the refresh task's fetch has not returned
\* or has just done so.
C38_Witness ==
    /\ fetch[0].st = "swapped"
    /\ \E j \in 1..Len(BackendLists) :
         /\ \E k \in DOMAIN fetch[0].old : fetch[0].old[k] = BackendLists[j]
         /\ \A k \in DOMAIN breakpointsCache : breakpointsCache[k] # BackendLists[j]

\* C39: Stop is not idempotent: the first Stop closes the stop channel, and a
\* Stop of a client that is stopped already (a second SDK.Shutdown) can be
\* called and panics on the close of the closed channel.
C39_SecondStopPanics ==
    /\ [][ Stop => IF stopChan = "open"
                   THEN stopChan' = "closed" /\ ~panicked'
                   ELSE panicked' ]_vars
    /\ []((stopChan = "closed" /\ ~panicked) => ENABLED (Stop /\ panicked'))

\* The process has panicked in the second Stop (the Poller alone has no other
\* panic).
C39_Witness == panicked /\ stopChan = "closed"

\* The goroutines that flush, and the batches taken out of the buffer: those
\* handed to the exporter, then what each flush holds between its Unlock and
\* its export.
Flushers == buffer.flushes \o <<buffer.loop>>
Batches ==
    buffer.exported
      \o [j \in 1..Len(Flushers) |->
            IF Flushers[j].st = "exporting" THEN Flushers[j].dataPoints ELSE <<>>]
BatchesNext ==
    buffer'.exported
      \o [j \in 1..Len(buffer'.flushes) + 1 |->
            LET fl == (buffer'.flushes \o <<buffer'.loop>>)[j]
            IN IF fl.st = "exporting" THEN fl.dataPoints ELSE <<>>]
\* How often data point p occurs in sequence q, and the batches it is in.
Occurs(p, q) == Cardinality({j \in 1..Len(q) : q[j] = p})
BatchesWith(p) == {j \in 1..Len(Batches) : Occurs(p, Batches[j]) > 0}

\* C40: every data point given to add is in the buffer or in exactly one
\* batch, once, and never in both: no point is lost and none is exported
\* twice, whatever the interleaving of adds, size-triggered flushes, timer
\* flushes and the final flush; the locked step of a flush takes the whole
\* buffer as its batch and leaves the buffer empty, and an export hands over
\* the batch its flush took.
C40_EachPointInOneBatch ==
    /\ [](\A p \in 1..buffer.added :
            /\ Occurs(p, buffer.data) + Cardinality(BatchesWith(p)) = 1
            /\ \A j \in BatchesWith(p) : Occurs(p, Batches[j]) = 1)
    /\ [][ ((\E g \in 1..MaxPoints : Buffer_Flush(g)) \/ Loop_Tick \/ Loop_Stop)
             => (buffer.data # <<>>
                   => /\ buffer'.data = <<>>
                      /\ \E j \in 1..Len(BatchesNext) : BatchesNext[j] = buffer.data) ]_vars
    /\ [][ Buffer_Add => /\ buffer'.data = Append(buffer.data, buffer'.added)
                         /\ buffer'.exported = buffer.exported
                         /\ buffer'.loop = buffer.loop
                         /\ SubSeq(buffer'.flushes, 1, Len(buffer.flushes))
                               = buffer.flushes ]_vars

\* A batch has been exported, another is held by a flush that has not exported
\* it yet, and a point added after that flush took its batch is in the buffer.
C40_Witness ==
    /\ Len(buffer.exported) > 0
    /\ \E j \in 1..Len(Flushers) : Flushers[j].st = "exporting"
    /\ buffer.data # <<>>
====
